---- MODULE Spec2Model ----
(***************************************************************************)
(* TCP Sniffer: a model of the capture-to-message pipeline.                *)
(*                                                                         *)
(*   native/reassembly.{hpp,cpp}  Reassembler (connection table, ordered   *)
(*                                delivery, cap and idle eviction)         *)
(*   native/http_parser.{hpp,cpp} HttpStreamParser (resumable HTTP/1.x)    *)
(*   native/addon.cpp             N-API addon: Start / Stop and the        *)
(*                                thread-safe function carrying records    *)
(*                                from the capture thread to the JS thread *)
(*   native/capture.cpp           CaptureEngine: start, stop, run_loop     *)
(*   src/sniffer.ts, output.ts    Sniffer start/stop/isRunning, delivery   *)
(*                                                                         *)
(* Strings of the program are sequences of byte values.  Each part of the  *)
(* pipeline has its own specification over its own variables; the other    *)
(* variables then keep their initial values:                               *)
(*   SpecStream  one StreamState driven through process_segment            *)
(*   SpecReasm   the Reassembler: push_segment, evict_idle, the clock      *)
(*   SpecHttp    one HttpStreamParser fed a byte stream in slices          *)
(*   SpecBridge  Sniffer start/stop over addon Start/Stop, the capture     *)
(*               thread, the JS event loop (SpecBridgeFair: the event loop *)
(*               runs what is pending)                                     *)
(*   SpecCapture the segment callback of the addon over the Reassembler    *)
(*   SpecOutput  output.ts: deliverMessage and the redaction of headers    *)
(***************************************************************************)
EXTENDS Integers, Sequences, FiniteSets, TLC

VARIABLES
  \* ---- SpecStream: one direction of one connection
  s_stream,      \* the StreamState (with ghost field out: chunks emitted, each with its seq)
  s_hist,        \* ghost: the segments pushed so far, in arrival order
  \* ---- SpecReasm: the Reassembler
  connections,   \* connections_: canonical key -> ConnectionState
  clock,         \* steady clock read by now_ms()
  eviction_log,  \* keys passed to log_eviction, in order
  pushes,        \* number of push_segment calls made (bounds the run)
  max_conn,      \* config_.max_concurrent_connections, the max_conn of on_seg
  admissions,    \* ghost: parity of the number of segments on_seg has admitted
  \* ---- SpecHttp: one HttpStreamParser
  h_input,       \* index of the byte stream this parser is fed
  h_fed,         \* number of bytes of it passed to feed() so far
  parser,        \* the fields of the HttpStreamParser
  emitted,       \* records passed to on_message_, in order
  \* ---- SpecBridge: addon Start/Stop and the thread-safe function
  engine,        \* CaptureEngine: running_, the capture thread, the pcap handle
  tsf,           \* the thread-safe function objects created so far
  g_message_tsf, \* index into tsf of the current one, 0 for nullptr
  produced,      \* number of records the capture thread has handed to BlockingCall
  delivered,     \* records the JS callback has received, in order
  stop_log,      \* ghost: at each return of Stop, the records still queued
  sn_running,    \* Sniffer: running
  sn_pending,    \* Sniffer: start() is suspended at its await
  api_log,       \* ghost: the calls of start() and stop() made, in order
  on_error,      \* ghost: the errors handed to the onError of Sniffer.start
  process,       \* the Node process: running, exited, terminated or crashed
  live,          \* ghost: number of threads executing CaptureEngine::run_loop
  sn_handlers,   \* signalHandlersAttached of the sniffer
  posting,       \* number of calls of postToUrl made by deliverMessage that have not returned
  drain_log,     \* ghost: the value of posting each time a stop() that stopped the engine resolved
  \* ---- SpecOutput: one call of deliverMessage
  o_config,      \* the OutputConfig
  o_msg,         \* the HttpMessage passed in
  o_out,         \* what the last call handed to the callback, stdout and fetch
  o_calls,       \* number of calls of deliverMessage made
  \* ---- SpecPost: one call of postToUrl
  post,          \* the frame of postToUrl: i, where it is suspended, what it did so far
  \* ---- SpecValidate: one call of validateConfig
  v_config,      \* the config given
  v_production,  \* isProduction()
  v_result,      \* what the call returned or threw
  \* ---- SpecInject: the admission of one pod
  i_pod,         \* the pod as the API server holds it
  i_response,    \* the last answer of the webhook, until its patch is applied
  i_log,         \* ghost: the reviews made
  \* ---- SpecAddon: the chunk callback of addon::Start over the Reassembler
  capture_ports, \* config_.capture_ports of the Reassembler
  g_http_parsers,\* g_http_parsers: "<connection id>:req" or ":res" -> HttpStreamParser
  a_feed,        \* ghost: the last call of on_seg, its segment, what the chunk callback found
  \* ---- SpecStop: CaptureEngine::stop() step by step, against the capture thread
  stopping       \* the embedder thread in stop(), the capture thread, the queue between them

streamVars == <<s_stream, s_hist>>
reasmVars  == <<connections, clock, eviction_log, pushes, max_conn, admissions>>
httpVars   == <<h_input, h_fed, parser, emitted>>
bridgeVars == <<engine, tsf, g_message_tsf, produced, delivered, stop_log,
                sn_running, sn_pending, api_log, on_error, process, live,
                posting, drain_log, sn_handlers>>
deliverVars == <<o_config, o_msg, o_out, o_calls>>
postVars == <<post>>
validVars == <<v_config, v_production, v_result>>
injectVars == <<i_pod, i_response, i_log>>
addonVars == <<capture_ports, g_http_parsers, a_feed>>
stopVars == <<stopping>>
outputVars == <<deliverVars, postVars, validVars, injectVars, addonVars, stopVars>>
vars == <<s_stream, s_hist, connections, clock, eviction_log, pushes, max_conn, admissions,
          h_input, h_fed, parser, emitted,
          engine, tsf, g_message_tsf, produced, delivered, stop_log,
          sn_running, sn_pending, api_log, on_error, process, live, posting, drain_log, sn_handlers,
          o_config, o_msg, o_out, o_calls, post, v_config, v_production, v_result,
          i_pod, i_response, i_log, capture_ports, g_http_parsers, a_feed, stopping>>

(***************************************************************************)
(* Bounds of the model                                                     *)
(***************************************************************************)
MaxStreamPushes == 5   \* segments pushed to the single stream of SpecStream
MaxPushes == 4         \* push_segment calls in SpecReasm
MaxClock == 2          \* the clock stops advancing here
MaxConcurrentConnections == 2   \* config: max_concurrent_connections
ConnectionIdleTimeoutMs == 2    \* config: connection_idle_timeout_ms

\* uint32_t sequence numbers: arithmetic is modulo 2^32, scaled down to SeqMod.
SeqMod == 4

(***************************************************************************)
(* Sequence helpers                                                        *)
(***************************************************************************)
Min(a, b) == IF a < b THEN a ELSE b

Drop(s, n) == SubSeq(s, n + 1, Len(s))

Take(s, n) == SubSeq(s, 1, n)

RemoveAt(s, i) == SubSeq(s, 1, i - 1) \o SubSeq(s, i + 1, Len(s))

\* std::string operator< : lexicographic on bytes, a proper prefix is smaller.
RECURSIVE StrLess(_, _)
StrLess(a, b) ==
  IF b = <<>> THEN FALSE
  ELSE IF a = <<>> THEN TRUE
  ELSE IF Head(a) # Head(b) THEN Head(a) < Head(b)
  ELSE StrLess(Tail(a), Tail(b))

\* std::to_string of an unsigned value: its decimal digits.
RECURSIVE to_string(_)
to_string(n) ==
  IF n < 10 THEN <<48 + n>> ELSE to_string(n \div 10) \o <<48 + (n % 10)>>

(***************************************************************************)
(* reassembly.cpp: keys                                                    *)
(***************************************************************************)
endpoint_key(ip, port) == ip \o <<58>> \o to_string(port)

connection_key(src_ip, src_port, dst_ip, dst_port) ==
  LET a == endpoint_key(src_ip, src_port)
      b == endpoint_key(dst_ip, dst_port)
  IN IF StrLess(a, b) THEN a \o <<45>> \o b ELSE b \o <<45>> \o a

(***************************************************************************)
(* reassembly.cpp: one StreamState                                         *)
(* The ghost field out records every chunk handed to on_chunk_ for this    *)
(* StreamState, with the sequence number of the segment it came from.      *)
(***************************************************************************)
U32(x) == x % SeqMod

StreamStateInit ==
  [next_seq |-> 0, initial_seq_set |-> FALSE, segments |-> <<>>, out |-> <<>>]

\* A delivery test that also lets a segment ahead of next_seq through.
AtOrAfterNextSeq(seq, next_seq) == seq >= next_seq

\* deliver_ordered line 97 and line 115: the test that lets a segment through.
AtNextSeq(seq, next_seq) == seq = next_seq

\* deliver_ordered lines 141-143: push_back, then std::sort by seq.  Sorting a
\* sorted vector with one element appended puts it after the elements that
\* are not greater (the vector stays short: insertion sort, which is stable).
RECURSIVE SortedInsert(_, _)
SortedInsert(segs, e) ==
  IF segs = <<>> THEN <<e>>
  ELSE IF e.seq < Head(segs).seq THEN <<e>> \o segs
  ELSE <<Head(segs)>> \o SortedInsert(Tail(segs), e)

\* deliver_ordered lines 111-138: the drain of buffered segments.  st carries
\* next_seq, segments, out, the iterator position i, the flag again and the
\* number of log_gap calls.
RECURSIVE DrainPass(_)
DrainPass(st) ==
  IF st.i > Len(st.segments) THEN st
  ELSE LET it == st.segments[st.i] IN
    IF AtNextSeq(it.seq, st.next_seq)
      THEN DrainPass([st EXCEPT
             !.out = Append(@, [seq |-> it.seq, data |-> it.data]),
             !.next_seq = U32(@ + Len(it.data)),
             !.segments = RemoveAt(@, st.i),
             !.again = TRUE])
    ELSE IF it.seq > st.next_seq
      THEN [st EXCEPT !.gaps = @ + 1]
    ELSE DrainPass([st EXCEPT !.i = @ + 1])

RECURSIVE DrainLoop(_)
DrainLoop(st) ==
  LET r == DrainPass([st EXCEPT !.i = 1, !.again = FALSE])
  IN IF r.again THEN DrainLoop(r) ELSE r

\* deliver_ordered lines 97-138: the segment is at next_seq; it is emitted, next_seq
\* advances and the buffered segments are drained.
deliver_in_order(s1, seq, data) ==
  DrainLoop([next_seq |-> U32(seq + Len(data)),
             segments |-> s1.segments,
             out |-> Append(s1.out, [seq |-> seq, data |-> data]),
             i |-> 1, again |-> TRUE, gaps |-> 0])

\* deliver_ordered lines 92-96: the first payload segment sets next_seq.
with_initial_seq(stream, seq) ==
  IF ~stream.initial_seq_set
    THEN [stream EXCEPT !.next_seq = seq, !.initial_seq_set = TRUE]
    ELSE stream

\* The number of log_gap calls process_segment makes for a segment on a stream.
log_gap_calls(stream, seg) ==
  IF seg.payload # <<>> /\ AtNextSeq(seg.seq, with_initial_seq(stream, seg.seq).next_seq)
    THEN deliver_in_order(with_initial_seq(stream, seg.seq), seg.seq, seg.payload).gaps
    ELSE 0

\* Reassembler::deliver_ordered, for a payload of len > 0 (len = 0 returns at once).
deliver_ordered(stream, seq, data) ==
  IF Len(data) = 0 THEN stream
  ELSE
    LET s1 == with_initial_seq(stream, seq)
    IN IF AtNextSeq(seq, s1.next_seq)
         THEN LET d == deliver_in_order(s1, seq, data)
              IN [s1 EXCEPT !.next_seq = d.next_seq,
                            !.segments = d.segments,
                            !.out = d.out]
       ELSE IF seq > s1.next_seq
         THEN [s1 EXCEPT !.segments = SortedInsert(@, [seq |-> seq, data |-> data])]
       ELSE s1

\* A process_segment that takes the sequence number of a SYN as that of the first
\* payload byte.
process_segment_syn_as_data(stream, seg) ==
  IF seg.payload = <<>>
    THEN IF seg.syn /\ ~stream.initial_seq_set
           THEN [stream EXCEPT !.initial_seq_set = TRUE, !.next_seq = seg.seq]
           ELSE stream
    ELSE deliver_ordered(stream, seg.seq, seg.payload)

\* Reassembler::process_segment on the StreamState of the segment's direction.
process_segment(stream, seg) ==
  IF seg.payload = <<>>
    THEN IF seg.syn /\ ~stream.initial_seq_set
           THEN [stream EXCEPT !.initial_seq_set = TRUE, !.next_seq = U32(seg.seq + 1)]
           ELSE stream
    ELSE deliver_ordered(stream, seg.seq, seg.payload)

(***************************************************************************)
(* SpecStream: segments of one direction, in any order, with repeats       *)
(***************************************************************************)
PayloadAB == <<65, 66>>
PayloadC == <<67>>

StreamSegments ==
  [seq : 0 .. SeqMod - 1, syn : {FALSE}, payload : {PayloadAB, PayloadC}]
  \cup [seq : 0 .. SeqMod - 1, syn : {TRUE}, payload : {<<>>}]
  \cup [seq : {0}, syn : {FALSE}, payload : {<<>>}]

StreamPush(seg) ==
  /\ Len(s_hist) < MaxStreamPushes
  /\ s_stream' = process_segment(s_stream, seg)
  /\ s_hist' = Append(s_hist, seg)
  /\ UNCHANGED <<reasmVars, httpVars, bridgeVars, outputVars>>

StreamInit == s_stream = StreamStateInit /\ s_hist = <<>>

StreamNext == \E seg \in StreamSegments : StreamPush(seg)

\* One direction of a connection that opens with or without a SYN: SYNs just below
\* the wrap of the sequence space and at 0, a bare ACK, one-byte payload segments
\* at every sequence number.
HandshakeSegments ==
  [seq : {0, SeqMod - 1}, syn : {TRUE}, payload : {<<>>}]
  \cup [seq : {0}, syn : {FALSE}, payload : {<<>>}]
  \cup [seq : 0 .. SeqMod - 1, syn : {FALSE}, payload : {PayloadC}]

HandshakeNext == \E seg \in HandshakeSegments : StreamPush(seg)

(***************************************************************************)
(* SpecReasm: the Reassembler                                              *)
(***************************************************************************)
CapturePorts == <<80>>   \* config_.capture_ports

IpS == <<49, 48, 46, 48, 46, 48, 46, 49>>   \* "10.0.0.1", the observed server
IpA == <<49, 48, 46, 48, 46, 48, 46, 50>>   \* "10.0.0.2"
IpB == <<49, 48, 46, 48, 46, 48, 46, 51>>   \* "10.0.0.3"
IpC == <<49, 48, 46, 48, 46, 48, 46, 52>>   \* "10.0.0.4"

Seg(sip, sp, dip, dp, seq, syn, payload) ==
  [src_ip |-> sip, src_port |-> sp, dst_ip |-> dip, dst_port |-> dp,
   seq |-> seq, syn |-> syn, payload |-> payload]

\* The sequence numbers of client segments: the first bytes of the space and
\* the last one before the wrap.
SegmentSeqs == {0, 1, 2, SeqMod - 1}

\* The decoded segments the capture thread may hand to push_segment.
Segments ==
  { Seg(IpA, 5001, IpS, 80, q, FALSE, p) : q \in SegmentSeqs, p \in {PayloadAB, PayloadC} }
  \cup { Seg(IpA, 5001, IpS, 80, SeqMod - 1, TRUE, <<>>) }
  \cup { Seg(IpS, 80, IpA, 5001, 0, FALSE, PayloadC) }
  \cup { Seg(IpB, 5002, IpS, 80, 0, FALSE, PayloadC) }
  \cup { Seg(IpC, 5003, IpS, 80, 0, FALSE, PayloadC) }

\* A default-constructed ConnectionState (what connections_[key] inserts).
ConnectionStateInit ==
  [receiver_ip |-> <<>>, receiver_port |-> 0, dest_ip |-> <<>>, dest_port |-> 0,
   client_to_server |-> StreamStateInit, server_to_client |-> StreamStateInit,
   last_activity_ms |-> 0, created_at_ms |-> 0,
   admitted |-> 0]   \* ghost: the number of the push_segment call that created it

\* push_segment lines 166-170: the loop over capture_ports.
RECURSIVE receiver_is_src(_, _)
receiver_is_src(ports, seg) ==
  IF ports = <<>> THEN FALSE
  ELSE IF seg.src_port = Head(ports) THEN TRUE
  ELSE IF seg.dst_port = Head(ports) THEN FALSE
  ELSE receiver_is_src(Tail(ports), seg)

RemoveKey(table, key) == [k \in DOMAIN table \ {key} |-> table[k]]

\* A loop condition that stops one connection too early.
OverCapByTwo(size) == size > MaxConcurrentConnections + 1

\* ensure_connection_cap line 72: the loop condition.
OverCap(size) == size > max_conn

\* ensure_connection_cap lines 76-81: the scan keeps the first connection it
\* meets with the smallest created_at_ms; the iteration order of the
\* unordered_map is unspecified, so any connection of that age may be it.
OldestKeys(table) ==
  { k \in DOMAIN table : \A j \in DOMAIN table : table[k].created_at_ms <= table[j].created_at_ms }

\* Reassembler::ensure_connection_cap: the possible results, as
\* [table, log] (keys are never empty, so the break of line 82 is not taken).
RECURSIVE ensure_connection_cap(_, _)
ensure_connection_cap(table, log) ==
  IF ~OverCap(Cardinality(DOMAIN table)) THEN { [table |-> table, log |-> log] }
  ELSE UNION { ensure_connection_cap(RemoveKey(table, k), Append(log, k)) : k \in OldestKeys(table) }

\* evict_idle line 59: the idle test (now_ms never precedes last_activity_ms).
IsIdle(conn, now_ms) == now_ms - conn.last_activity_ms >= ConnectionIdleTimeoutMs

\* The orders in which a set of keys can be met when iterating the map.
RECURSIVE Orders(_)
Orders(S) ==
  IF S = {} THEN { <<>> }
  ELSE UNION { { <<k>> \o o : o \in Orders(S \ {k}) } : k \in S }

\* A direction test that looks at the port only.
SamePortAsDest(conn, seg) == seg.src_port = conn.dest_port

\* push_segment line 189: the direction of a segment on a connection.
is_client_to_server(conn, seg) == seg.src_ip = conn.dest_ip /\ seg.src_port = conn.dest_port

\* Reassembler::push_segment lines 164-193, the n-th call made at time now on the
\* table: the key, the ConnectionState after process_segment, the direction of the
\* segment and the chunks handed to on_chunk_ on the way.
push_segment_conn(table0, seg, now, n) ==
  LET key == connection_key(seg.src_ip, seg.src_port, seg.dst_ip, seg.dst_port)
      conn0 == IF key \in DOMAIN table0 THEN table0[key] ELSE ConnectionStateInit
      conn1 == IF conn0.receiver_port = 0
                 THEN IF receiver_is_src(capture_ports, seg)
                        THEN [conn0 EXCEPT !.created_at_ms = now, !.last_activity_ms = now,
                                           !.admitted = n,
                                           !.receiver_ip = seg.src_ip, !.receiver_port = seg.src_port,
                                           !.dest_ip = seg.dst_ip, !.dest_port = seg.dst_port]
                        ELSE [conn0 EXCEPT !.created_at_ms = now, !.last_activity_ms = now,
                                           !.admitted = n,
                                           !.receiver_ip = seg.dst_ip, !.receiver_port = seg.dst_port,
                                           !.dest_ip = seg.src_ip, !.dest_port = seg.src_port]
                 ELSE conn0
      conn2 == [conn1 EXCEPT !.last_activity_ms = now]
      is_c2s == is_client_to_server(conn2, seg)
      stream == IF is_c2s THEN "client_to_server" ELSE "server_to_client"
      after == process_segment(conn2[stream], seg)
  IN [key |-> key, conn |-> [conn2 EXCEPT ![stream] = after], client_to_server |-> is_c2s,
      created |-> key \notin DOMAIN table0, seg |-> seg,
      chunks |-> Drop(after.out, Len(conn2[stream].out))]

\* Reassembler::push_segment as a function: the possible results, as [table, log],
\* of the n-th call, made at time now on the table.
push_segment_result(table0, log, seg, now, n) ==
  LET u == push_segment_conn(table0, seg, now, n)
      table == [k \in DOMAIN table0 \cup {u.key} |-> IF k = u.key THEN u.conn ELSE table0[k]]
  IN ensure_connection_cap(table, log)

\* Reassembler::push_segment
push_segment(seg) ==
  /\ pushes < MaxPushes
  /\ \E r \in push_segment_result(connections, eviction_log, seg, clock, pushes + 1) :
       /\ connections' = r.table
       /\ eviction_log' = r.log
  /\ pushes' = pushes + 1
  /\ UNCHANGED <<clock, max_conn, admissions, streamVars, httpVars, bridgeVars, outputVars>>

\* Reassembler::evict_idle(now_ms) as a function: the possible results, as [table, log].
evict_idle_result(table0, log, now_ms) ==
  LET to_remove == { k \in DOMAIN table0 : IsIdle(table0[k], now_ms) }
      table == [k \in DOMAIN table0 \ to_remove |-> table0[k]]
  IN UNION { ensure_connection_cap(table, log \o o) : o \in Orders(to_remove) }

\* Reassembler::evict_idle(now_ms()), called on its own
evict_idle ==
  /\ \E r \in evict_idle_result(connections, eviction_log, clock) :
       /\ connections' = r.table
       /\ eviction_log' = r.log
  /\ UNCHANGED <<clock, pushes, max_conn, admissions, streamVars, httpVars, bridgeVars, outputVars>>

\* The steady clock advances between calls.
Tick ==
  /\ clock < MaxClock
  /\ clock' = clock + 1
  /\ UNCHANGED <<connections, eviction_log, pushes, max_conn, admissions,
                 streamVars, httpVars, bridgeVars, outputVars>>

ReasmInit ==
  /\ connections = <<>>
  /\ clock = 0
  /\ eviction_log = <<>>
  /\ pushes = 0
  /\ admissions = 0

ReasmNext ==
  \/ \E seg \in Segments : push_segment(seg)
  \/ evict_idle
  \/ Tick

(***************************************************************************)
(* http_parser.cpp: helpers                                                *)
(***************************************************************************)
CR == 13
LF == 10
SP == 32
HTAB == 9
COLON == 58

\* size_t arithmetic: a negative difference wraps to a value near 2^64, larger
\* than any buffer; SizeHuge stands for it.
SizeHuge == 2000000000
IntMax == 2147483647

\* std::string::find(ch, from), positions counted from 1; 0 for npos.
RECURSIVE FindByte(_, _, _)
FindByte(s, ch, from) ==
  IF from > Len(s) THEN 0
  ELSE IF s[from] = ch THEN from
  ELSE FindByte(s, ch, from + 1)

\* std::string::find(needle) != npos
RECURSIVE Contains(_, _)
Contains(s, needle) ==
  IF Len(s) < Len(needle) THEN FALSE
  ELSE IF SubSeq(s, 1, Len(needle)) = needle THEN TRUE
  ELSE Contains(Tail(s), needle)

\* std::tolower in the C locale
to_lower_c(c) == IF c >= 65 /\ c <= 90 THEN c + 32 ELSE c

to_lower(s) == [i \in 1 .. Len(s) |-> to_lower_c(s[i])]

IsSpace(c) == c \in {32, 9, 10, 11, 12, 13}

IsDigit(c) == c >= 48 /\ c <= 57

\* std::isxdigit
IsXDigit(c) == IsDigit(c) \/ (c >= 97 /\ c <= 102) \/ (c >= 65 /\ c <= 70)

XDigitValue(c) == IF IsDigit(c) THEN c - 48 ELSE IF c >= 97 THEN c - 87 ELSE c - 55

RECURSIVE SkipSpace(_)
SkipSpace(s) == IF s # <<>> /\ IsSpace(Head(s)) THEN SkipSpace(Tail(s)) ELSE s

\* The leading decimal digits of s: how many, their value, and whether the
\* value leaves the range of int.
RECURSIVE Digits(_, _)
Digits(s, acc) ==
  IF s = <<>> \/ ~IsDigit(Head(s)) THEN acc
  ELSE IF acc.overflow \/ acc.value > (IntMax - (Head(s) - 48)) \div 10
    THEN Digits(Tail(s), [acc EXCEPT !.count = @ + 1, !.overflow = TRUE])
  ELSE Digits(Tail(s), [acc EXCEPT !.count = @ + 1, !.value = @ * 10 + (Head(s) - 48)])

\* std::stoi: leading white space, an optional sign, decimal digits; ok is
\* FALSE where stoi throws (no digits: invalid_argument; too large: out_of_range).
stoi(s) ==
  LET t == SkipSpace(s)
      signed == t # <<>> /\ Head(t) \in {43, 45}
      neg == t # <<>> /\ Head(t) = 45
      d == Digits(IF signed THEN Tail(t) ELSE t, [count |-> 0, value |-> 0, overflow |-> FALSE])
  IN IF d.count = 0 \/ d.overflow THEN [ok |-> FALSE, value |-> 0]
     ELSE [ok |-> TRUE, value |-> IF neg THEN 0 - d.value ELSE d.value]

\* The value of a string of hex digits (std::stoul(..., 16) on the digits of a chunk-size line).
RECURSIVE HexValue(_, _)
HexValue(s, acc) ==
  IF s = <<>> THEN acc ELSE HexValue(Tail(s), acc * 16 + XDigitValue(Head(s)))

\* is_utf8, lines 17-37, on the first len bytes of data.
RECURSIVE is_utf8_from(_, _, _)
is_utf8_from(data, i, len) ==
  IF i >= len THEN TRUE
  ELSE LET c == data[i + 1]
           cont(k) == (data[i + 1 + k] \div 64) = 2    \* (b & 0xc0) == 0x80
       IN IF c <= 127 THEN is_utf8_from(data, i + 1, len)
          ELSE IF c >= 194 /\ c <= 223 /\ i + 1 < len
            THEN cont(1) /\ is_utf8_from(data, i + 2, len)
          ELSE IF c >= 224 /\ c <= 239 /\ i + 2 < len
            THEN cont(1) /\ cont(2) /\ is_utf8_from(data, i + 3, len)
          ELSE IF c >= 240 /\ c <= 244 /\ i + 3 < len
            THEN cont(1) /\ cont(2) /\ cont(3) /\ is_utf8_from(data, i + 4, len)
          ELSE FALSE

is_utf8(data, len) == is_utf8_from(data, 0, len)

\* line.pop_back() while the line ends in CR or LF
RECURSIVE StripEol(_)
StripEol(line) ==
  IF line # <<>> /\ line[Len(line)] \in {CR, LF} THEN StripEol(SubSeq(line, 1, Len(line) - 1))
  ELSE line

(***************************************************************************)
(* http_parser.cpp: HttpStreamParser                                       *)
(***************************************************************************)
MaxBodySize == 4   \* config: max_body_size

StrHttp == <<72, 84, 84, 80, 47>>                                   \* "HTTP/"
StrChunked == <<99, 104, 117, 110, 107, 101, 100>>                  \* "chunked"
StrTransferEncoding ==
  <<116, 114, 97, 110, 115, 102, 101, 114, 45, 101, 110, 99, 111, 100, 105, 110, 103>>
StrContentLength ==
  <<99, 111, 110, 116, 101, 110, 116, 45, 108, 101, 110, 103, 116, 104>>

\* The fields of a freshly constructed HttpStreamParser (http_parser.hpp).
ParserInit ==
  [buffer_ |-> <<>>, state_ |-> "kHeaders", content_length_ |-> -1, body_read_ |-> 0,
   method_ |-> <<>>, path_ |-> <<>>, status_code_ |-> 0, status_phrase_ |-> <<>>,
   headers_ |-> <<>>, body_ |-> <<>>, body_truncated_ |-> FALSE, body_encoding_ |-> "",
   is_request_ |-> TRUE, chunked_consumed_ |-> 0]

\* emit_message: the HttpMessageData handed to on_message_ (timestamp and
\* connection metadata aside).
MessageOf(p) ==
  [is_request |-> p.is_request_, method |-> p.method_, path |-> p.path_,
   status_code |-> p.status_code_, headers |-> p.headers_, body |-> p.body_,
   body_truncated |-> p.body_truncated_, body_encoding |-> p.body_encoding_]

\* The resets that follow every emit_message() call.
AfterEmit(p) ==
  [p EXCEPT !.method_ = <<>>, !.path_ = <<>>, !.status_code_ = 0, !.headers_ = <<>>,
            !.body_ = <<>>, !.body_truncated_ = FALSE, !.body_encoding_ = "",
            !.state_ = "kHeaders"]

\* header_value: headers_ is keyed by lower-cased names.
header_value(headers, name) ==
  LET lower == to_lower(name)
  IN IF lower \in DOMAIN headers THEN headers[lower]
     ELSE IF \E k \in DOMAIN headers : to_lower(k) = lower
       THEN headers[CHOOSE k \in DOMAIN headers : to_lower(k) = lower]
     ELSE <<>>

\* try_parse_headers lines 141-150: is there an end of the header block at
\* position j of the buffer (counted from 1)?
HeaderEndAt(buf, j) ==
  \/ /\ buf[j] = CR /\ buf[j + 1] = LF
     /\ j + 3 <= Len(buf)
     /\ buf[j + 2] = CR /\ buf[j + 3] = LF
  \/ buf[j] = LF /\ buf[j + 1] = LF

\* try_parse_headers lines 167-191: the start line.
ParseStartLine(p, line) ==
  IF Len(line) >= 5 /\ SubSeq(line, 1, 5) = StrHttp
    THEN LET code_start == FindByte(line, SP, 6)
             code == stoi(SubSeq(line, code_start + 1, Len(line)))
             phrase_start == FindByte(line, SP, code_start + 1)
             p1 == [p EXCEPT !.is_request_ = FALSE]
             p2 == IF code_start # 0 /\ code.ok THEN [p1 EXCEPT !.status_code_ = code.value] ELSE p1
         IN IF code_start # 0 /\ phrase_start # 0
              THEN [p2 EXCEPT !.status_phrase_ = SubSeq(line, phrase_start + 1, Len(line))]
              ELSE p2
    ELSE LET sp1 == FindByte(line, SP, 1)
             sp2 == FindByte(line, SP, sp1 + 1)
             p1 == [p EXCEPT !.is_request_ = TRUE]
         IN IF sp1 = 0 THEN p1
            ELSE [p1 EXCEPT !.method_ = SubSeq(line, 1, sp1 - 1),
                            !.path_ = IF sp2 # 0 THEN SubSeq(line, sp1 + 1, sp2 - 1)
                                      ELSE SubSeq(line, sp1 + 1, Len(line))]

RECURSIVE SkipOws(_, _)
SkipOws(line, i) ==
  IF i <= Len(line) /\ line[i] \in {SP, HTAB} THEN SkipOws(line, i + 1) ELSE i

\* try_parse_headers lines 193-200: one header line.
ParseHeaderLine(p, line) ==
  LET colon == FindByte(line, COLON, 1)
      key == to_lower(SubSeq(line, 1, colon - 1))
      val == SubSeq(line, SkipOws(line, colon + 1), Len(line))
  IN IF colon = 0 THEN p
     ELSE [p EXCEPT !.headers_ =
             [k \in DOMAIN p.headers_ \cup {key} |-> IF k = key THEN val ELSE p.headers_[k]]]

\* try_parse_headers lines 159-205: the loop over the lines of the block;
\* pos and line_start are counted from 1.
RECURSIVE ParseLines(_, _, _, _, _)
ParseLines(p, block, pos, line_start, first) ==
  IF pos > Len(block) + 1 THEN p
  ELSE IF pos = Len(block) + 1 \/ block[pos] = LF
    THEN LET line == StripEol(SubSeq(block, line_start, pos - 1))
         IN IF line = <<>> THEN p
            ELSE IF first THEN ParseLines(ParseStartLine(p, line), block, pos + 1, pos + 1, FALSE)
            ELSE ParseLines(ParseHeaderLine(p, line), block, pos + 1, pos + 1, FALSE)
  ELSE ParseLines(p, block, pos + 1, line_start, first)

\* HttpStreamParser::try_parse_headers: [ok, p]
try_parse_headers(p) ==
  LET buf == p.buffer_
      ends == { j \in 1 .. Len(buf) - 1 : HeaderEndAt(buf, j) }
  IN IF ends = {} THEN [ok |-> FALSE, p |-> p]
     ELSE
       LET j == CHOOSE x \in ends : \A y \in ends : x <= y
           header_len == (j - 1) + (IF buf[j] = CR THEN 4 ELSE 2)
           block == Take(buf, header_len)
           p1 == ParseLines([p EXCEPT !.buffer_ = Drop(buf, header_len)], block, 1, 1, TRUE)
           te == header_value(p1.headers_, StrTransferEncoding)
           cl == header_value(p1.headers_, StrContentLength)
           n == stoi(cl)
       IN IF Contains(to_lower(te), StrChunked)
            THEN [ok |-> TRUE, p |-> [p1 EXCEPT !.state_ = "kBodyChunked", !.chunked_consumed_ = 0]]
            ELSE [ok |-> TRUE,
                  p |-> [p1 EXCEPT !.content_length_ = IF cl # <<>> /\ n.ok THEN n.value ELSE 0,
                                   !.state_ = "kBodyContentLength",
                                   !.body_read_ = 0]]

\* A store that takes the whole declared body, whatever max_body_size is.
BodyTakeAll(body_read, need) == need

\* parse_body_content_length lines 240-244: how many bytes to store.
BodyTake(body_read, need) ==
  IF body_read + need > MaxBodySize
    THEN IF body_read >= MaxBodySize THEN 0 ELSE MaxBodySize - body_read
    ELSE need

\* parse_body_content_length line 255: bytes erased when nothing is stored.
BodyDiscard(need) == need

\* HttpStreamParser::parse_body_content_length: [p, out]
parse_body_content_length(p) ==
  LET diff == p.content_length_ - p.body_read_
      need == IF diff < 0 THEN SizeHuge ELSE diff
  IN IF need = 0 THEN [p |-> AfterEmit(p), out |-> <<MessageOf(p)>>]
     ELSE IF Len(p.buffer_) < need THEN [p |-> p, out |-> <<>>]
     ELSE
       LET to_take == BodyTake(p.body_read_, need)
           p1 == IF p.body_read_ + need > MaxBodySize
                   THEN [p EXCEPT !.body_truncated_ = TRUE] ELSE p
           p2 == IF to_take > 0
                   THEN [(IF is_utf8(p1.buffer_, to_take)
                            THEN [p1 EXCEPT !.body_ = @ \o Take(p1.buffer_, to_take)]
                            ELSE [p1 EXCEPT !.body_encoding_ = "binary"])
                         EXCEPT !.body_read_ = @ + to_take,
                                !.buffer_ = Drop(@, Min(to_take, need))]
                   ELSE [p1 EXCEPT !.buffer_ = Drop(@, BodyDiscard(need)),
                                   !.body_read_ = @ + need]
       IN IF p2.body_read_ >= p.content_length_
            THEN [p |-> AfterEmit(p2), out |-> <<MessageOf(p2)>>]
            ELSE [p |-> p2, out |-> <<>>]

\* HttpStreamParser::parse_chunk_size: [ok, out_size, consumed]
parse_chunk_size(buf) ==
  LET end == FindByte(buf, LF, 1)
      line == StripEol(SubSeq(buf, 1, end - 1))
      xs == { k \in 0 .. Len(line) : \A i \in 1 .. k : IsXDigit(line[i]) }
      hex_end == CHOOSE k \in xs : \A m \in xs : m <= k
  IN IF end = 0 THEN [ok |-> FALSE, out_size |-> 0, consumed |-> 0]
     ELSE IF hex_end = 0 THEN [ok |-> TRUE, out_size |-> 0, consumed |-> end]
     ELSE [ok |-> TRUE, out_size |-> HexValue(SubSeq(line, 1, hex_end), 0), consumed |-> end]

\* parse_body_chunked lines 305-309: how many bytes of the chunk to store.
ChunkAppend(body_size, chunk_size) ==
  IF body_size + chunk_size > MaxBodySize
    THEN IF body_size >= MaxBodySize THEN 0 ELSE MaxBodySize - body_size
    ELSE chunk_size

\* HttpStreamParser::parse_body_chunked: [p, out]
RECURSIVE parse_body_chunked(_)
parse_body_chunked(p) ==
  LET c == parse_chunk_size(p.buffer_) IN
  IF ~c.ok THEN [p |-> p, out |-> <<>>]
  ELSE
    LET p1 == [p EXCEPT !.buffer_ = Drop(@, c.consumed),
                        !.chunked_consumed_ = @ + c.consumed]
        chunk_size == c.out_size
    IN IF chunk_size = 0 THEN [p |-> AfterEmit(p1), out |-> <<MessageOf(p1)>>]
       ELSE IF Len(p1.buffer_) < chunk_size + 2 THEN [p |-> p1, out |-> <<>>]
       ELSE
         LET to_append == ChunkAppend(Len(p1.body_), chunk_size)
             p2 == IF Len(p1.body_) + chunk_size > MaxBodySize
                     THEN [p1 EXCEPT !.body_truncated_ = TRUE] ELSE p1
             p3 == IF to_append > 0
                     THEN IF is_utf8(p2.buffer_, to_append)
                            THEN [p2 EXCEPT !.body_ = @ \o Take(p2.buffer_, to_append)]
                            ELSE [p2 EXCEPT !.body_encoding_ = "binary"]
                     ELSE p2
         IN parse_body_chunked([p3 EXCEPT !.buffer_ = Drop(@, chunk_size + 2),
                                          !.chunked_consumed_ = @ + chunk_size + 2])

\* parse lines 127 and 130: the loop goes on to the next message only when
\* state_ is kDone (no statement assigns kDone).
MessageDone(state) == state = "kDone"

\* HttpStreamParser::parse: [p, out]
RECURSIVE parse(_, _)
parse(p, out) ==
  IF p.state_ = "kHeaders"
    THEN LET r == try_parse_headers(p)
         IN IF ~r.ok THEN [p |-> p, out |-> out] ELSE parse(r.p, out)
  ELSE IF p.state_ = "kBodyContentLength"
    THEN LET r == parse_body_content_length(p)
         IN IF ~MessageDone(r.p.state_) THEN [p |-> r.p, out |-> out \o r.out]
            ELSE parse(r.p, out \o r.out)
  ELSE IF p.state_ = "kBodyChunked"
    THEN LET r == parse_body_chunked(p)
         IN IF ~MessageDone(r.p.state_) THEN [p |-> r.p, out |-> out \o r.out]
            ELSE parse(r.p, out \o r.out)
  ELSE [p |-> p, out |-> out]

\* HttpStreamParser::feed(data, len): [p, out]
feed(p, data) ==
  IF Len(data) = 0 THEN [p |-> p, out |-> <<>>]
  ELSE parse([p EXCEPT !.buffer_ = @ \o data], <<>>)

(***************************************************************************)
(* SpecHttp: one parser, fed one byte stream in slices of any size         *)
(***************************************************************************)
\* The messages the byte streams are made of.
UnitBytes(u) ==
  CASE u = "req" ->   \* GET /a HTTP/1.1 CRLF Host: x CRLF CRLF
    <<71, 69, 84, 32, 47, 97, 32, 72, 84, 84, 80, 47, 49, 46, 49, 13, 10, 72, 111, 115,
      116, 58, 32, 120, 13, 10, 13, 10>>
    [] u = "lf" ->   \* GET /b HTTP/1.0 LF LF
    <<71, 69, 84, 32, 47, 98, 32, 72, 84, 84, 80, 47, 49, 46, 48, 10, 10>>
    [] u = "res2" ->   \* HTTP/1.1 200 OK CRLF Content-Length: 2 CRLF CRLF ok
    <<72, 84, 84, 80, 47, 49, 46, 49, 32, 50, 48, 48, 32, 79, 75, 13, 10, 67, 111, 110,
      116, 101, 110, 116, 45, 76, 101, 110, 103, 116, 104, 58, 32, 50, 13, 10, 13, 10,
      111, 107>>
    [] u = "big" ->   \* HTTP/1.1 200 OK CRLF Content-Length: 10 CRLF CRLF 0123456789
    <<72, 84, 84, 80, 47, 49, 46, 49, 32, 50, 48, 48, 32, 79, 75, 13, 10, 67, 111, 110,
      116, 101, 110, 116, 45, 76, 101, 110, 103, 116, 104, 58, 32, 49, 48, 13, 10, 13,
      10, 48, 49, 50, 51, 52, 53, 54, 55, 56, 57>>
    [] u = "chunk" ->   \* HTTP/1.1 200 OK CRLF Transfer-Encoding: chunked CRLF CRLF, then 2 CRLF hi CRLF 1 CRLF ! CRLF 0 CRLF CRLF
    <<72, 84, 84, 80, 47, 49, 46, 49, 32, 50, 48, 48, 32, 79, 75, 13, 10, 84, 114, 97,
      110, 115, 102, 101, 114, 45, 69, 110, 99, 111, 100, 105, 110, 103, 58, 32, 99, 104,
      117, 110, 107, 101, 100, 13, 10, 13, 10, 50, 13, 10, 104, 105, 13, 10, 49, 13, 10,
      33, 13, 10, 48, 13, 10, 13, 10>>
    [] u = "chbig" ->   \* the same header block, then 3 CRLF abc CRLF 3 CRLF def CRLF 0 CRLF CRLF
    <<72, 84, 84, 80, 47, 49, 46, 49, 32, 50, 48, 48, 32, 79, 75, 13, 10, 84, 114, 97,
      110, 115, 102, 101, 114, 45, 69, 110, 99, 111, 100, 105, 110, 103, 58, 32, 99, 104,
      117, 110, 107, 101, 100, 13, 10, 13, 10, 51, 13, 10, 97, 98, 99, 13, 10, 51, 13,
      10, 100, 101, 102, 13, 10, 48, 13, 10, 13, 10>>
    [] u = "bin" ->   \* HTTP/1.1 200 OK CRLF Content-Length: 2 CRLF CRLF 0xFF 0xFE
    <<72, 84, 84, 80, 47, 49, 46, 49, 32, 50, 48, 48, 32, 79, 75, 13, 10, 67, 111, 110,
      116, 101, 110, 116, 45, 76, 101, 110, 103, 116, 104, 58, 32, 50, 13, 10, 13, 10,
      255, 254>>
    [] u = "utf" ->   \* HTTP/1.1 200 OK CRLF Content-Length: 6 CRLF CRLF abc 0xC3 0xA9 d
    <<72, 84, 84, 80, 47, 49, 46, 49, 32, 50, 48, 48, 32, 79, 75, 13, 10, 67, 111, 110,
      116, 101, 110, 116, 45, 76, 101, 110, 103, 116, 104, 58, 32, 54, 13, 10, 13, 10,
      97, 98, 99, 195, 169, 100>>
    [] u = "junk" ->   \* 0x01 0x02 SP 0x03 LF LF: not HTTP
    <<1, 2, 32, 3, 10, 10>>
    [] u = "cl0" ->   \* HTTP/1.1 200 OK CRLF Content-Length: 0 CRLF CRLF
    <<72, 84, 84, 80, 47, 49, 46, 49, 32, 50, 48, 48, 32, 79, 75, 13, 10, 67, 111, 110,
      116, 101, 110, 116, 45, 76, 101, 110, 103, 116, 104, 58, 32, 48, 13, 10, 13, 10>>
    [] u = "clx" ->   \* HTTP/1.1 200 OK CRLF Content-Length: abc CRLF CRLF
    <<72, 84, 84, 80, 47, 49, 46, 49, 32, 50, 48, 48, 32, 79, 75, 13, 10, 67, 111, 110,
      116, 101, 110, 116, 45, 76, 101, 110, 103, 116, 104, 58, 32, 97, 98, 99, 13, 10, 13,
      10>>
    [] u = "clneg" ->   \* HTTP/1.1 200 OK CRLF Content-Length: -1 CRLF CRLF
    <<72, 84, 84, 80, 47, 49, 46, 49, 32, 50, 48, 48, 32, 79, 75, 13, 10, 67, 111, 110,
      116, 101, 110, 116, 45, 76, 101, 110, 103, 116, 104, 58, 32, 45, 49, 13, 10, 13, 10>>
    [] u = "chbin" ->   \* HTTP/1.1 200 OK CRLF Transfer-Encoding: chunked CRLF CRLF, then 2 CRLF 0xFF 0xFE CRLF 0 CRLF CRLF
    <<72, 84, 84, 80, 47, 49, 46, 49, 32, 50, 48, 48, 32, 79, 75, 13, 10, 84, 114, 97,
      110, 115, 102, 101, 114, 45, 69, 110, 99, 111, 100, 105, 110, 103, 58, 32, 99, 104,
      117, 110, 107, 101, 100, 13, 10, 13, 10, 50, 13, 10, 255, 254, 13, 10, 48, 13, 10,
      13, 10>>

\* The byte streams of a (connection, direction): messages back to back.
Streams ==
  << <<"req">>, <<"lf">>, <<"res2">>, <<"big">>, <<"chunk">>, <<"chbig">>, <<"bin">>, <<"utf">>,
     <<"req", "req", "req">>, <<"res2", "req">>, <<"big", "res2", "req">>,
     <<"chunk", "req">>, <<"chbig", "req">>, <<"bin", "res2">>, <<"utf", "req">>,
     <<"req", "junk", "req">>,
     <<"cl0", "req">>, <<"clx", "req">>, <<"clneg", "req">>, <<"chbin", "req">> >>

RECURSIVE Concat(_)
Concat(us) == IF us = <<>> THEN <<>> ELSE UnitBytes(Head(us)) \o Concat(Tail(us))

StreamBytes(i) == Concat(Streams[i])

\* One feed() call with the next n bytes of the stream.
HttpFeed(n) ==
  /\ h_fed + n <= Len(StreamBytes(h_input))
  /\ LET r == feed(parser, SubSeq(StreamBytes(h_input), h_fed + 1, h_fed + n))
     IN /\ parser' = r.p
        /\ emitted' = emitted \o r.out
  /\ h_fed' = h_fed + n
  /\ UNCHANGED <<h_input, streamVars, reasmVars, bridgeVars, outputVars>>

HttpInit ==
  /\ h_input \in 1 .. Len(Streams)
  /\ h_fed = 0
  /\ parser = ParserInit
  /\ emitted = <<>>

HttpNext == \E n \in 1 .. Len(StreamBytes(h_input)) : HttpFeed(n)

(***************************************************************************)
(* SpecCapture: the segment callback of addon::Start over the Reassembler  *)
(***************************************************************************)
CaptureMaxConn == 4   \* maxConcurrentConnections of this configuration

\* Segments without payload (bare ACKs) of three clients.
KeepAlives ==
  { Seg(IpA, 5001, IpS, 80, 0, FALSE, <<>>),
    Seg(IpB, 5002, IpS, 80, 0, FALSE, <<>>),
    Seg(IpC, 5003, IpS, 80, 0, FALSE, <<>>) }

KeyA == connection_key(IpA, 5001, IpS, 80)

\* on_seg, the SegmentCallback addon::Start gives the engine: push_segment, then
\* evict_idle(now_ms()) when the table holds more than max_conn / 2 connections.
\* log_eviction writes to stderr; its lines are not kept here.
on_seg(seg) ==
  /\ \E r \in push_segment_result(connections, <<>>, seg, clock, 0) :
       IF Cardinality(DOMAIN r.table) > max_conn \div 2
         THEN \E e \in evict_idle_result(r.table, <<>>, clock) : connections' = e.table
         ELSE connections' = r.table
  /\ admissions' = 1 - admissions
  /\ UNCHANGED <<clock, eviction_log, pushes, max_conn, streamVars, httpVars, bridgeVars, outputVars>>

\* A segment of connection A.
OnSegA == \E seg \in KeepAlives : seg.src_ip = IpA /\ on_seg(seg)

\* A segment of a connection other than A.
OnSegOthers == \E seg \in KeepAlives : seg.src_ip # IpA /\ on_seg(seg)

CaptureNext == OnSegA \/ OnSegOthers \/ Tick

(***************************************************************************)
(* SpecAddon: on_seg with the chunk callback and g_http_parsers            *)
(***************************************************************************)
MaxAddonSegs == 4   \* calls of on_seg in one run

\* The chunk callback, the key: connection_id + (client_to_server ? ":req" : ":res").
parser_key(connection_id, client_to_server) ==
  connection_id \o (IF client_to_server THEN <<58, 114, 101, 113>> ELSE <<58, 114, 101, 115>>)

\* The chunk callback after feed() has returned r: the parser is in the map under
\* its key, and its message callback was handed the records r.out.
after_feed(st, key, r) ==
  [parsers |-> [k \in DOMAIN st.parsers \cup {key} |-> IF k = key THEN r.p ELSE st.parsers[k]],
   out |-> st.out \o r.out]

\* The chunk callback of addon::Start on one chunk: the parser of the key is looked
\* up in g_http_parsers, created when there is none, and fed the chunk.  st holds
\* the map and the records handed to the message callbacks so far.
chunk_callback(st, key, data) ==
  after_feed(st, key, feed(IF key \in DOMAIN st.parsers THEN st.parsers[key] ELSE ParserInit, data))

\* The chunk callback on the chunks of one push_segment, in order.
RECURSIVE chunk_callbacks(_, _, _)
chunk_callbacks(st, key, chunks) ==
  IF chunks = <<>> THEN st
  ELSE chunk_callbacks(chunk_callback(st, key, Head(chunks).data), key, Tail(chunks))

NoFeed == [fed |-> FALSE, created |-> FALSE]

\* The request "req" of connection A in two segments, the same request in one
\* segment, and bare ACKs of two other clients.
ReqHead == Take(UnitBytes("req"), 6)

ReqRest == Drop(UnitBytes("req"), 6)

AddonSegments ==
  { Seg(IpA, 5001, IpS, 80, 0, FALSE, ReqHead),
    Seg(IpA, 5001, IpS, 80, U32(Len(ReqHead)), FALSE, ReqRest),
    Seg(IpA, 5001, IpS, 80, 0, FALSE, UnitBytes("req")),
    Seg(IpB, 5002, IpS, 80, 0, FALSE, <<>>),
    Seg(IpC, 5003, IpS, 80, 0, FALSE, <<>>) }

\* What on_seg leaves behind when the chunk callbacks of its push_segment have
\* returned r; u is the result of push_segment_conn.
on_chunks_done(u, key, r) ==
  /\ g_http_parsers' = r.parsers
  /\ a_feed' = [fed |-> u.chunks # <<>>, created |-> u.created, seg |-> u.seg, out |-> r.out,
                found |-> IF key \in DOMAIN g_http_parsers
                            THEN g_http_parsers[key] ELSE ParserInit]

\* What push_segment does through on_chunk_ in one call, u being the result of
\* push_segment_conn: every chunk goes to the chunk callback.
on_chunks(u) ==
  on_chunks_done(u, parser_key(u.key, u.client_to_server),
                 chunk_callbacks([parsers |-> g_http_parsers, out |-> <<>>],
                                 parser_key(u.key, u.client_to_server), u.chunks))

\* on_seg with the chunk callback installed: push_segment hands the chunks of the
\* segment to the callback before ensure_connection_cap runs, then evict_idle runs
\* when the table holds more than max_conn / 2 connections.
AddonOnSeg(seg) ==
  /\ pushes < MaxAddonSegs
  /\ pushes' = pushes + 1
  /\ on_chunks(push_segment_conn(connections, seg, clock, pushes + 1))
  /\ \E r \in push_segment_result(connections, eviction_log, seg, clock, pushes + 1) :
       IF Cardinality(DOMAIN r.table) > max_conn \div 2
         THEN \E e \in evict_idle_result(r.table, r.log, clock) :
                connections' = e.table /\ eviction_log' = e.log
         ELSE connections' = r.table /\ eviction_log' = r.log
  /\ UNCHANGED <<clock, max_conn, admissions, capture_ports, streamVars, httpVars, bridgeVars,
                 deliverVars, postVars, validVars, injectVars, stopVars>>

\* The values of config.ports: one port, and two ports in either order.
PortConfigs == { <<80>>, <<80, 8080>>, <<8080, 80>> }

\* A segment and the segment of the opposite direction.
Reverse(seg) ==
  [seg EXCEPT !.src_ip = seg.dst_ip, !.src_port = seg.dst_port,
              !.dst_ip = seg.src_ip, !.dst_port = seg.src_port]

\* Segments between a client and the server, between a proxy on port 8080 and the
\* server, between two hosts on port 80, and between two ports that are not
\* captured; each in both directions.
PortSegmentsOneWay ==
  { Seg(IpA, 5001, IpS, 80, 0, FALSE, PayloadC),
    Seg(IpB, 8080, IpS, 80, 0, FALSE, PayloadC),
    Seg(IpB, 80, IpS, 80, 0, FALSE, PayloadC),
    Seg(IpC, 5003, IpA, 5001, 0, FALSE, PayloadC) }

PortSegments == PortSegmentsOneWay \cup { Reverse(seg) : seg \in PortSegmentsOneWay }

\* addon::Start has just run with one of the port lists.
PortsInit ==
  /\ capture_ports \in PortConfigs
  /\ g_http_parsers = <<>>
  /\ a_feed = NoFeed

PortsNext == \E seg \in PortSegments : AddonOnSeg(seg)

\* addon::Start has just run: no parser yet.
AddonIdle ==
  /\ capture_ports = CapturePorts
  /\ g_http_parsers = <<>>
  /\ a_feed = NoFeed

AddonNext == (\E seg \in AddonSegments : AddonOnSeg(seg)) \/ Tick

(***************************************************************************)
(* SpecStop: CaptureEngine::stop() step by step.  The embedder (JS) thread *)
(* is in its event loop or inside stop(); the capture thread is inside     *)
(* pcap_loop, or in packet_handler handing records to BlockingCall.        *)
(***************************************************************************)
MaxPackets == 3      \* packets pcap_loop hands to packet_handler in one run
MaxPerPacket == 2    \* records one packet completes
MaxQueueSize == 0    \* ThreadSafeFunction::New(..., 0, 1): max_queue_size, 0 for no limit

\* A queue that is full at one record.
QueueFullAtOne(n) == n >= 1

\* napi_call_threadsafe_function, blocking mode: the caller waits while the queue
\* is full; a queue of max_queue_size 0 is never full.
QueueFull(n) == MaxQueueSize > 0 /\ n >= MaxQueueSize

StopIdle ==
  stopping = [js |-> "loop", thread |-> "none", todo |-> 0, queue |-> 0, packets |-> 0,
              pcap_handle_ |-> FALSE, break_loop |-> FALSE, running_ |-> FALSE,
              busy_at_stop |-> FALSE]

\* CaptureEngine::start succeeds: the handle is open, the thread enters pcap_loop.
EngineStart ==
  /\ stopping.js = "loop" /\ ~stopping.running_ /\ ~stopping.pcap_handle_
  /\ stopping.thread = "none"
  /\ stopping' = [stopping EXCEPT !.thread = "pcap_loop", !.pcap_handle_ = TRUE, !.running_ = TRUE]
  /\ UNCHANGED <<streamVars, reasmVars, httpVars, bridgeVars, deliverVars, postVars, validVars,
                 injectVars, addonVars>>

\* pcap_loop hands a packet to packet_handler; on_seg and the parsers find that it
\* completes n records.  pcap_loop looks at the break flag before it reads on.
PacketHandler ==
  /\ stopping.thread = "pcap_loop" /\ ~stopping.break_loop
  /\ stopping.packets < MaxPackets
  /\ \E n \in 0 .. MaxPerPacket :
       stopping' = [stopping EXCEPT !.thread = "packet_handler", !.todo = n, !.packets = @ + 1]
  /\ UNCHANGED <<streamVars, reasmVars, httpVars, bridgeVars, deliverVars, postVars, validVars,
                 injectVars, addonVars>>

\* The message callback of a parser: BlockingCall(payload, message_tsf_callback)
\* returns once the record is in the queue.
HandlerBlockingCall ==
  /\ stopping.thread = "packet_handler" /\ stopping.todo > 0
  /\ ~QueueFull(stopping.queue)
  /\ stopping' = [stopping EXCEPT !.queue = @ + 1, !.todo = @ - 1]
  /\ UNCHANGED <<streamVars, reasmVars, httpVars, bridgeVars, deliverVars, postVars, validVars,
                 injectVars, addonVars>>

\* packet_handler returns to pcap_loop.
HandlerReturns ==
  /\ stopping.thread = "packet_handler" /\ stopping.todo = 0
  /\ stopping' = [stopping EXCEPT !.thread = "pcap_loop"]
  /\ UNCHANGED <<streamVars, reasmVars, httpVars, bridgeVars, deliverVars, postVars, validVars,
                 injectVars, addonVars>>

\* pcap_loop returns: with -2 once the break flag is set (the handle was opened
\* with a read timeout of 1000 ms, so the loop looks at the flag again also when
\* no packet arrives), or with -1 on an error.  run_loop sets running_ = false and
\* the thread ends.
LoopReturns ==
  /\ stopping.thread = "pcap_loop"
  /\ stopping' = [stopping EXCEPT !.thread = "ended", !.running_ = FALSE]
  /\ UNCHANGED <<streamVars, reasmVars, httpVars, bridgeVars, deliverVars, postVars, validVars,
                 injectVars, addonVars>>

\* pcap_loop returns -2 because the break flag is set.
LoopBreaks == stopping.break_loop /\ LoopReturns

\* pcap_loop returns -1.
LoopFails == ~stopping.break_loop /\ LoopReturns

\* The embedder thread, in its event loop: one queued record goes to
\* message_tsf_callback.
EventLoopDispatch ==
  /\ stopping.js = "loop" /\ stopping.queue > 0
  /\ stopping' = [stopping EXCEPT !.queue = @ - 1]
  /\ UNCHANGED <<streamVars, reasmVars, httpVars, bridgeVars, deliverVars, postVars, validVars,
                 injectVars, addonVars>>

\* CaptureEngine::stop() up to the join: the early return when there is nothing to
\* stop, else stop_requested_ = true and pcap_breakloop.
StopBreaks ==
  /\ stopping.js = "loop"
  /\ stopping.running_ \/ stopping.pcap_handle_
  /\ stopping' = [stopping EXCEPT !.js = "join", !.break_loop = TRUE,
                                  !.busy_at_stop = (stopping.thread = "packet_handler"
                                                    /\ stopping.todo > 0)]
  /\ UNCHANGED <<streamVars, reasmVars, httpVars, bridgeVars, deliverVars, postVars, validVars,
                 injectVars, addonVars>>

\* capture_thread_.join() returns when the thread has ended; running_ = false.
StopJoins ==
  /\ stopping.js = "join" /\ stopping.thread = "ended"
  /\ stopping' = [stopping EXCEPT !.js = "joined", !.thread = "joined", !.running_ = FALSE]
  /\ UNCHANGED <<streamVars, reasmVars, httpVars, bridgeVars, deliverVars, postVars, validVars,
                 injectVars, addonVars>>

\* The rest of stop(): pcap_stats, pcap_freecode, pcap_close, pcap_handle_ = nullptr;
\* stop() returns.
StopCloses ==
  /\ stopping.js = "joined"
  /\ stopping' = [stopping EXCEPT !.js = "returned", !.pcap_handle_ = FALSE]
  /\ UNCHANGED <<streamVars, reasmVars, httpVars, bridgeVars, deliverVars, postVars, validVars,
                 injectVars, addonVars>>

StopNext ==
  \/ EngineStart \/ PacketHandler \/ HandlerBlockingCall \/ HandlerReturns
  \/ LoopBreaks \/ LoopFails \/ EventLoopDispatch \/ StopBreaks \/ StopJoins \/ StopCloses

(***************************************************************************)
(* SpecBridge: addon Start / Stop, the capture thread, the JS event loop   *)
(***************************************************************************)
MaxStarts == 2    \* calls of Start in one run
MaxRecords == 4   \* records the capture thread produces in one run
MaxCalls == 4     \* calls of sniffer.start() and sniffer.stop() in one run

\* Napi::ThreadSafeFunction::New(env, fn, "onMessage", 0, 1): an unbounded queue,
\* one thread using it.
TsfNew == [queue |-> <<>>, thread_count |-> 1]

\* ThreadSafeFunction::Release(): the thread count drops; what is queued stays queued
\* for the event loop.
TsfRelease(f) == [f EXCEPT !.thread_count = 0]

\* The mutation of BlockingCall used to test C19: the payload jumps the queue.
BlockingCallFront(f, payload) == [f EXCEPT !.queue = <<payload>> \o @]

\* ThreadSafeFunction::BlockingCall(payload, cb) on an unbounded queue: enqueue, return.
BlockingCall(f, payload) == [f EXCEPT !.queue = Append(@, payload)]

\* What Stop() leaves queued when it returns.
LeftQueued(fs) == UNION { { fs[j].queue[i] : i \in 1 .. Len(fs[j].queue) } : j \in 1 .. Len(fs) }

\* g_http_parsers keys: "<connection>:req" and "<connection>:res" of one connection.
ParserKeys == {"k:req", "k:res"}

\* The mutation of AlreadyRunning used to test C13: the guard is gone.
NeverAlreadyRunning(e) == FALSE

\* CaptureEngine::start: if (running_) { report_error("UNRECOVERABLE", ...); return false; }
AlreadyRunning(e) == e.running_

\* std::thread::joinable(): a thread was started and has not been joined.
Joinable(e) == e.capture_thread_ \in {"running", "ended"}

\* The code property of the Error thrown by addon::Start: Napi::Error::New(env, message)
\* sets none.
ThrownCode == "undefined"

\* wrapNativeAddon.start, catch: code = e.code ?? 'UNRECOVERABLE'
WrapperCode(c) == IF c = "undefined" THEN "UNRECOVERABLE" ELSE c

\* Sniffer.start, onError: the codes on which the process exits.
IsFatalCode(c) == c \in {"CAPTURE_OPEN_FAILED", "INVALID_INTERFACE", "UNRECOVERABLE"}

\* The mutation of StopIsNoop used to test C15: stop() always goes to the engine.
StopNeverNoop(running) == FALSE

\* Sniffer.stop: if (!running) { detachSignalHandlers(); return; }
StopIsNoop(running) == ~running

\* The mutation of ValidationThrows used to test C25: start() goes on with any config.
ValidationNeverThrows(valid) == FALSE

\* Sniffer.start: validateConfig(config) throws when the config is not valid.
ValidationThrows(valid) == ~valid

\* sniffer.start() up to its await: the guard on running, validateConfig (the config
\* object and the environment can change between calls, so each call finds the config
\* valid or not), attachSignalHandlers, engine.start() of the
\* wrapper, addon::Start(config, onMessage), CaptureEngine::start().  A failure is
\* thrown by addon::Start, caught by the wrapper, handed to onError, which exits.
\* Deleting the reassembler under a running capture thread is a use after free: the
\* process crashes there or goes on.
AddonStart ==
  /\ process = "running"
  /\ UNCHANGED <<posting, drain_log>>
  /\ ~sn_running
  /\ Len(api_log) < MaxCalls
  /\ UNCHANGED <<sn_running, produced, delivered, stop_log, streamVars, reasmVars, httpVars, outputVars>>
  /\ \E valid \in BOOLEAN :
       /\ api_log' = Append(api_log, IF valid THEN "start" ELSE "start_invalid")
       /\ IF ValidationThrows(valid)
            THEN UNCHANGED <<engine, tsf, g_message_tsf, on_error, process, live, sn_pending,
                             sn_handlers>>
            ELSE
         /\ Len(tsf) < MaxStarts
         /\ \E open_ok \in BOOLEAN, crash \in BOOLEAN :
              LET released == IF g_message_tsf # 0
                                THEN [tsf EXCEPT ![g_message_tsf] = TsfRelease(@)]
                                ELSE tsf
                  failed(code) ==
                    /\ engine' = [engine EXCEPT !.last_error_code_ = code]
                    /\ on_error' = Append(on_error, [code |-> WrapperCode(ThrownCode), engine_code |-> code])
                    /\ process' = IF IsFatalCode(WrapperCode(ThrownCode)) THEN "exited" ELSE process
                    /\ sn_handlers' = FALSE
                    /\ UNCHANGED <<live, sn_pending>>
              IN /\ tsf' = Append(released, TsfNew)
                 /\ g_message_tsf' = Len(tsf) + 1
                 /\ IF engine.capture_thread_ = "running" /\ crash
                      THEN /\ process' = "crashed"
                           /\ sn_handlers' = TRUE
                           /\ UNCHANGED <<engine, on_error, live, sn_pending>>
                    ELSE IF AlreadyRunning(engine)
                      THEN failed("UNRECOVERABLE")
                    ELSE IF ~open_ok
                      THEN failed("CAPTURE_OPEN_FAILED")
                    ELSE /\ engine' = [running_ |-> TRUE, capture_thread_ |-> "running",
                                       pcap_handle_ |-> TRUE, last_error_code_ |-> "",
                                       loop_failed |-> engine.loop_failed]
                         /\ live' = live + 1
                         /\ process' = IF Joinable(engine) THEN "terminated" ELSE process
                         /\ sn_pending' = ~Joinable(engine)
                         /\ sn_handlers' = TRUE
                         /\ UNCHANGED on_error

\* sniffer.start() after its await: running = true.
StartResume ==
  /\ process = "running"
  /\ UNCHANGED <<posting, drain_log, sn_handlers>>
  /\ sn_pending
  /\ sn_running' = TRUE
  /\ sn_pending' = FALSE
  /\ UNCHANGED <<engine, tsf, g_message_tsf, produced, delivered, stop_log, api_log,
                 on_error, process, live, streamVars, reasmVars, httpVars, outputVars>>

\* The capture thread: a parser's message callback hands one record to BlockingCall.
CaptureEmit ==
  /\ process = "running"
  /\ UNCHANGED <<posting, drain_log, sn_handlers>>
  /\ engine.capture_thread_ = "running"
  /\ g_message_tsf # 0
  /\ produced < MaxRecords
  /\ produced' = produced + 1
  /\ \E k \in ParserKeys :
       tsf' = [tsf EXCEPT ![g_message_tsf] =
                 BlockingCall(@, [id |-> produced + 1, key |-> k, tsf |-> g_message_tsf])]
  /\ UNCHANGED <<engine, g_message_tsf, delivered, stop_log, sn_running, sn_pending,
                 api_log, on_error, process, live, streamVars, reasmVars, httpVars, outputVars>>

\* The capture thread: pcap_loop returns -1.  run_loop reports UNRECOVERABLE to the
\* on_error_ it was started with, the empty lambda of addon::Start, and ends.
CaptureLoopError ==
  /\ process = "running"
  /\ UNCHANGED <<posting, drain_log, sn_handlers>>
  /\ engine.capture_thread_ = "running"
  /\ engine' = [engine EXCEPT !.running_ = FALSE, !.capture_thread_ = "ended",
                              !.last_error_code_ = "UNRECOVERABLE", !.loop_failed = TRUE]
  /\ live' = live - 1
  /\ UNCHANGED <<tsf, g_message_tsf, produced, delivered, stop_log, sn_running, sn_pending,
                 api_log, on_error, process, streamVars, reasmVars, httpVars, outputVars>>

\* The JS thread, back in its event loop with no continuation pending: one queued
\* record goes to message_tsf_callback, onMessage and deliverMessage, which calls
\* onHttpMessage and writes stdout before it returns, and calls postToUrl without
\* awaiting it (the configuration modelled has an outputUrl).
TsfDispatch ==
  /\ process = "running"
  /\ posting' = posting + 1
  /\ UNCHANGED <<drain_log, sn_handlers>>
  /\ ~sn_pending
  /\ \E j \in 1 .. Len(tsf) :
       /\ tsf[j].queue # <<>>
       /\ delivered' = Append(delivered, Head(tsf[j].queue))
       /\ tsf' = [tsf EXCEPT ![j].queue = Tail(@)]
  /\ UNCHANGED <<engine, g_message_tsf, produced, stop_log, sn_running, sn_pending,
                 api_log, on_error, process, live, streamVars, reasmVars, httpVars, outputVars>>

\* sniffer.stop() -> engine.stop() -> addon::Stop(), run on the JS thread without
\* returning to the event loop: CaptureEngine::stop() joins the capture thread, the
\* thread-safe function is released and its pointer cleared, the result is returned
\* and the promise of stop() resolves.  When running is false stop() returns at once.
AddonStop ==
  /\ process = "running"
  /\ sn_handlers' = FALSE
  /\ UNCHANGED posting
  /\ Len(api_log) < MaxCalls
  /\ api_log' = Append(api_log, "stop")
  /\ UNCHANGED <<produced, delivered, sn_pending, on_error, process,
                 streamVars, reasmVars, httpVars, outputVars>>
  /\ IF StopIsNoop(sn_running)
       THEN UNCHANGED <<engine, tsf, g_message_tsf, stop_log, sn_running, live, drain_log>>
       ELSE LET released == IF g_message_tsf # 0
                              THEN [tsf EXCEPT ![g_message_tsf] = TsfRelease(@)]
                              ELSE tsf
            IN /\ sn_running' = FALSE
               /\ tsf' = released
               /\ stop_log' = Append(stop_log, LeftQueued(released))
               /\ drain_log' = Append(drain_log, posting)
               /\ g_message_tsf' = 0
               /\ IF ~engine.running_ /\ ~engine.pcap_handle_
                    THEN UNCHANGED <<engine, live>>
                    ELSE /\ engine' = [engine EXCEPT
                                         !.running_ = FALSE,
                                         !.capture_thread_ = IF Joinable(engine) THEN "joined" ELSE @,
                                         !.pcap_handle_ = FALSE]
                         /\ live' = IF engine.capture_thread_ = "running" THEN live - 1 ELSE live

BridgeInit ==
  /\ engine = [running_ |-> FALSE, capture_thread_ |-> "none", pcap_handle_ |-> FALSE,
               last_error_code_ |-> "", loop_failed |-> FALSE]
  /\ tsf = <<>>
  /\ g_message_tsf = 0
  /\ produced = 0
  /\ delivered = <<>>
  /\ stop_log = <<>>
  /\ sn_running = FALSE
  /\ sn_pending = FALSE
  /\ api_log = <<>>
  /\ on_error = <<>>
  /\ process = "running"
  /\ live = 0
  /\ posting = 0
  /\ drain_log = <<>>
  /\ sn_handlers = FALSE

\* A call of postToUrl started by deliverMessage returns: its POST succeeded, or it
\* was dropped after the retries.
PostReturns ==
  /\ process = "running"
  /\ posting > 0
  /\ posting' = posting - 1
  /\ UNCHANGED <<engine, tsf, g_message_tsf, produced, delivered, stop_log, sn_running,
                 sn_pending, api_log, on_error, process, live, drain_log, sn_handlers,
                 streamVars, reasmVars, httpVars, outputVars>>

\* addon::Start replaces g_reassembler and g_http_parsers right after g_message_tsf
\* (lines 476-492) and addon::Stop deletes them right before it (556-567): the
\* Reassembler in use is the one made together with the current thread-safe
\* function, 0 for nullptr.
g_reassembler == g_message_tsf

BridgeNext == AddonStart \/ StartResume \/ CaptureEmit \/ CaptureLoopError \/ TsfDispatch \/ AddonStop

\* The bridge together with the end of the POSTs that deliverMessage started.
DrainNext == BridgeNext \/ PostReturns

(***************************************************************************)
(* SpecOutput: output.ts, deliverMessage                                   *)
(***************************************************************************)
StrRedacted == <<91, 82, 69, 68, 65, 67, 84, 69, 68, 93>>   \* "[REDACTED]"
StrAuthorization == <<97, 117, 116, 104, 111, 114, 105, 122, 97, 116, 105, 111, 110>>   \* "authorization"
StrCookie == <<99, 111, 111, 107, 105, 101>>   \* "cookie"

\* export const DEFAULT_REDACT_HEADERS = ['authorization', 'cookie']
DEFAULT_REDACT_HEADERS == <<StrAuthorization, StrCookie>>

\* String.prototype.toLowerCase on the ASCII names used here.
toLowerCase(str) == to_lower(str)

\* The mutation of NameIsListed used to test C20: the name is compared as it is.
NameIsListedExact(lowerNames, k) == k \in lowerNames

\* redactSensitiveHeaders: lowerNames.has(k.toLowerCase())
NameIsListed(lowerNames, k) == toLowerCase(k) \in lowerNames

\* redactSensitiveHeaders(msg, headerNamesToRedact): the message returned.  An
\* object's entries are kept as a sequence of [name, value] in insertion order.
redactSensitiveHeaders(msg, headerNamesToRedact) ==
  IF Len(headerNamesToRedact) = 0
    THEN [msg EXCEPT !.headers = msg.headers]
    ELSE LET lowerNames == { toLowerCase(headerNamesToRedact[i]) : i \in 1 .. Len(headerNamesToRedact) }
             headers == [i \in 1 .. Len(msg.headers) |->
                           [name |-> msg.headers[i].name,
                            value |-> IF NameIsListed(lowerNames, msg.headers[i].name)
                                        THEN StrRedacted
                                        ELSE msg.headers[i].value]]
         IN [msg EXCEPT !.headers = headers]

\* JSON.stringify of a string without characters to escape.
Quoted(str) == <<34>> \o str \o <<34>>

RECURSIVE StringifyEntries(_)
StringifyEntries(entries) ==
  IF entries = <<>> THEN <<>>
  ELSE Quoted(Head(entries).name) \o <<COLON>> \o Quoted(Head(entries).value)
       \o (IF Len(entries) > 1 THEN <<44>> ELSE <<>>) \o StringifyEntries(Tail(entries))

\* JSON.stringify(msg): {"direction":"...","headers":{...}}
JSON_stringify(msg) ==
  <<123>> \o Quoted(<<100, 105, 114, 101, 99, 116, 105, 111, 110>>) \o <<COLON>> \o Quoted(msg.direction) \o <<44>>
  \o Quoted(<<104, 101, 97, 100, 101, 114, 115>>) \o <<COLON, 123>> \o StringifyEntries(msg.headers) \o <<125, 125>>

\* The mutation of emitCallback used to test C21: no try around the call.
emitCallbackUncaught(config, msg) ==
  IF ~config.onHttpMessage THEN [received |-> <<>>, logged |-> FALSE, threw |-> FALSE]
  ELSE [received |-> <<msg>>, logged |-> FALSE, threw |-> config.callbackThrows]

\* emitCallback(config, msg): what onHttpMessage is given, whether the catch logged an
\* error, whether an exception leaves the function.
emitCallback(config, msg) ==
  IF ~config.onHttpMessage THEN [received |-> <<>>, logged |-> FALSE, threw |-> FALSE]
  ELSE [received |-> <<msg>>, logged |-> config.callbackThrows, threw |-> FALSE]

\* deliverMessage(config, msg): what emitCallback gives onHttpMessage, what writeStdout
\* writes, the body postToUrl gives fetch, and the msg object after the call (the
\* function assigns to no property of it).
deliverMessage(config, msg) ==
  LET namesToRedact == IF config.redactHeaders.defined
                         THEN config.redactHeaders.names
                         ELSE DEFAULT_REDACT_HEADERS
      redacted == redactSensitiveHeaders(msg, namesToRedact)
      cb == emitCallback(config, redacted)
  IN [called |-> TRUE,
      callback |-> cb.received,
      logged |-> cb.logged,
      threw |-> cb.threw,
      stdout |-> IF ~cb.threw /\ config.outputStdout
                   THEN <<JSON_stringify(redacted) \o <<LF>>>> ELSE <<>>,
      post |-> IF ~cb.threw /\ config.outputUrl THEN <<JSON_stringify(redacted)>> ELSE <<>>,
      msg |-> msg]

\* Header names and values of the messages delivered.
HeaderNames ==
  { StrAuthorization,
    <<65, 117, 116, 104, 111, 114, 105, 122, 97, 116, 105, 111, 110>>,   \* "Authorization"
    StrCookie,
    <<104, 111, 115, 116>> }   \* "host"

HeaderValues == { <<120>>, <<121>> }   \* "x", "y"

MaxHeaders == 2   \* headers of one message

\* Header objects: up to n entries.
RECURSIVE HeaderObjects(_)
HeaderObjects(n) ==
  IF n = 0 THEN { <<>> }
  ELSE LET shorter == HeaderObjects(n - 1)
       IN shorter \cup
          { Append(h, [name |-> k, value |-> v]) :
              h \in { g \in shorter : Len(g) = n - 1 }, k \in HeaderNames, v \in HeaderValues }

\* The keys of an object are distinct.
DistinctNames(h) == \A i \in 1 .. Len(h) : \A j \in 1 .. Len(h) : i # j => h[i].name # h[j].name

Messages ==
  { [direction |-> <<114, 101, 113, 117, 101, 115, 116>>, headers |-> h] :
      h \in { g \in HeaderObjects(MaxHeaders) : DistinctNames(g) } }

\* redactHeaders: not set, [], ['Cookie'], ['host'].
RedactLists ==
  { [defined |-> FALSE, names |-> <<>>],
    [defined |-> TRUE, names |-> <<>>],
    [defined |-> TRUE, names |-> << <<67, 111, 111, 107, 105, 101>> >>],
    [defined |-> TRUE, names |-> << <<104, 111, 115, 116>> >>] }

\* callbackThrows: the onHttpMessage given throws on every call.
Configs ==
  { [redactHeaders |-> r, onHttpMessage |-> cb, callbackThrows |-> ct,
     outputStdout |-> so, outputUrl |-> url] :
      r \in RedactLists, cb \in BOOLEAN, ct \in BOOLEAN, so \in BOOLEAN, url \in BOOLEAN }

NotCalled ==
  [called |-> FALSE, callback |-> <<>>, logged |-> FALSE, threw |-> FALSE,
   stdout |-> <<>>, post |-> <<>>, msg |-> <<>>]

MaxDeliveries == 2   \* calls of deliverMessage in one run

\* One call of deliverMessage(config, msg).
DeliverMessage ==
  /\ o_calls < MaxDeliveries
  /\ ~o_out.threw
  /\ o_out' = deliverMessage(o_config, o_msg)
  /\ o_calls' = o_calls + 1
  /\ UNCHANGED <<o_config, o_msg, postVars, validVars, injectVars, streamVars, reasmVars, httpVars, bridgeVars, addonVars, stopVars>>

\* postToUrl not called.
PostIdle ==
  [pc |-> "idle", i |-> 0, fetches |-> <<>>, waits |-> <<>>, logged |-> FALSE, threw |-> FALSE]

OutputInit ==
  /\ o_config \in Configs
  /\ o_msg \in Messages
  /\ o_out = NotCalled
  /\ o_calls = 0
  /\ post = PostIdle

\* No message is being delivered.
OutputIdle ==
  /\ o_config = [redactHeaders |-> [defined |-> FALSE, names |-> <<>>],
                 onHttpMessage |-> FALSE, callbackThrows |-> FALSE,
                 outputStdout |-> FALSE, outputUrl |-> FALSE]
  /\ o_msg = [direction |-> <<114, 101, 113, 117, 101, 115, 116>>, headers |-> <<>>]
  /\ o_out = NotCalled
  /\ o_calls = 0
  /\ post = PostIdle

OutputNext == DeliverMessage

(***************************************************************************)
(* SpecPost: output.ts, postToUrl                                          *)
(***************************************************************************)
\* const RETRY_DELAYS_MS = [1000, 2000, 4000]
RETRY_DELAYS_MS == <<1000, 2000, 4000>>

\* How a fetch settles: a response with its status, or a rejection.
FetchOutcomes == {"200", "404", "500", "rejected"}

\* res.ok
ResponseOk(outcome) == outcome = "200"

\* The mutation of LoopContinues used to test C22: one more turn of the loop.
LoopContinuesOnceMore(i) == i <= Len(RETRY_DELAYS_MS) + 1

\* postToUrl: for (let i = 0; i <= RETRY_DELAYS_MS.length; i++)
LoopContinues(i) == i <= Len(RETRY_DELAYS_MS)

\* The top of the loop with index i: fetch is called, or the loop is over and the
\* failure is logged.
LoopTop(f, i) ==
  IF LoopContinues(i) THEN [f EXCEPT !.pc = "fetch", !.i = i]
  ELSE [f EXCEPT !.pc = "returned", !.i = i, !.logged = TRUE]

\* postToUrl(config, msg) up to its first await; without a url it returns at once.
PostToUrl ==
  /\ post.pc = "idle"
  /\ \E url_set \in BOOLEAN :
       post' = IF url_set THEN LoopTop(post, 0) ELSE [post EXCEPT !.pc = "returned"]
  /\ UNCHANGED <<deliverVars, validVars, injectVars, streamVars, reasmVars, httpVars, bridgeVars, addonVars, stopVars>>

\* The fetch awaited settles.  On an ok response postToUrl returns; otherwise it waits
\* RETRY_DELAYS_MS[i] when there is one, and goes to the next turn when there is none.
FetchSettles ==
  /\ post.pc = "fetch"
  /\ \E outcome \in FetchOutcomes :
       LET f == [post EXCEPT !.fetches = Append(@, outcome)]
       IN post' = IF ResponseOk(outcome) THEN [f EXCEPT !.pc = "returned"]
                  ELSE IF f.i < Len(RETRY_DELAYS_MS) THEN [f EXCEPT !.pc = "wait"]
                  ELSE LoopTop(f, f.i + 1)
  /\ UNCHANGED <<deliverVars, validVars, injectVars, streamVars, reasmVars, httpVars, bridgeVars, addonVars, stopVars>>

\* The timer of setTimeout(r, RETRY_DELAYS_MS[i]) fires; the next turn begins.
TimerFires ==
  /\ post.pc = "wait"
  /\ post' = LoopTop([post EXCEPT !.waits = Append(@, RETRY_DELAYS_MS[post.i + 1])], post.i + 1)
  /\ UNCHANGED <<deliverVars, validVars, injectVars, streamVars, reasmVars, httpVars, bridgeVars, addonVars, stopVars>>

PostNext == PostToUrl \/ FetchSettles \/ TimerFires

(***************************************************************************)
(* SpecValidate: validation.ts, validateConfig                             *)
(***************************************************************************)
\* A JavaScript value: its type, a number as twice its value (so that halves can be
\* told from integers), a string, or the items of an array.  NaN is a number.
JsV(t, n, s, items) == [t |-> t, n |-> n, s |-> s, items |-> items]
Undefined == JsV("undefined", 0, "", <<>>)
JsNull == JsV("null", 0, "", <<>>)
NaN == JsV("number", 0, "NaN", <<>>)
Half(k) == JsV("number", k, "", <<>>)
Whole(n) == Half(2 * n)
Str(s) == JsV("string", 0, s, <<>>)
Arr(items) == JsV("array", 0, "", items)

MIN_PORT == 1
MAX_PORT == 65535
MIN_SAMPLE_RATE == 0
MAX_SAMPLE_RATE == 1

CONTRACT_DEFAULTS ==
  [sampleRate |-> Whole(1), maxBodySize |-> Whole(1048576), maxConcurrentConnections |-> Whole(10000),
   connectionIdleTimeoutMs |-> Whole(300000), interface |-> Str("")]

\* typeof x === 'number'
TypeofNumber(x) == x.t = "number"

\* Number.isNaN(x)
IsNaN(x) == x.t = "number" /\ x.s = "NaN"

\* Number.isInteger(x)
IsInteger(x) == x.t = "number" /\ ~IsNaN(x) /\ x.n % 2 = 0

\* x >= m and x <= m for a number x; a comparison with NaN is false.
NumGE(x, m) == ~IsNaN(x) /\ x.n >= 2 * m
NumLE(x, m) == ~IsNaN(x) /\ x.n <= 2 * m

\* The mutation of PortOk used to test C24: the upper limit is not checked.
PortOkNoUpperLimit(p) == TypeofNumber(p) /\ IsInteger(p) /\ NumGE(p, MIN_PORT)

\* typeof p === 'number' && Number.isInteger(p) && p >= MIN_PORT && p <= MAX_PORT
PortOk(p) == TypeofNumber(p) /\ IsInteger(p) /\ NumGE(p, MIN_PORT) /\ NumLE(p, MAX_PORT)

SampleRateOk(x) ==
  TypeofNumber(x) /\ ~IsNaN(x) /\ NumGE(x, MIN_SAMPLE_RATE) /\ NumLE(x, MAX_SAMPLE_RATE)

\* typeof x === 'number' && Number.isInteger(x) && x > 0
PositiveInteger(x) == TypeofNumber(x) /\ IsInteger(x) /\ x.n > 0

\* config.f !== undefined ? config.f : CONTRACT_DEFAULTS.f
OrDefault(x, d) == IF x # Undefined THEN x ELSE d

\* new URL(s).protocol for the strings used here; "" when the constructor throws.
UrlProtocol(x) ==
  IF x = Str("https://collector/ingest") THEN "https:"
  ELSE IF x = Str("http://collector/ingest") THEN "http:"
  ELSE ""

NoField == "undefined"
NoEngineConfig ==
  [interface |-> Undefined, ports |-> <<>>, sampleRate |-> Undefined, maxBodySize |-> Undefined,
   maxConcurrentConnections |-> Undefined, connectionIdleTimeoutMs |-> Undefined]

NotValidated == [called |-> FALSE, ok |-> FALSE, field |-> NoField, value |-> NoEngineConfig]
Thrown(field) == [called |-> TRUE, ok |-> FALSE, field |-> field, value |-> NoEngineConfig]
Returned(value) == [called |-> TRUE, ok |-> TRUE, field |-> NoField, value |-> value]

\* validateConfig(config) with isProduction() = production: the EngineConfig returned,
\* or the field of the ValidationError thrown.
validateConfig(config, production) ==
  LET sampleRate == OrDefault(config.sampleRate, CONTRACT_DEFAULTS.sampleRate)
      maxBodySize == OrDefault(config.maxBodySize, CONTRACT_DEFAULTS.maxBodySize)
      maxConcurrentConnections ==
        OrDefault(config.maxConcurrentConnections, CONTRACT_DEFAULTS.maxConcurrentConnections)
      connectionIdleTimeoutMs ==
        OrDefault(config.connectionIdleTimeoutMs, CONTRACT_DEFAULTS.connectionIdleTimeoutMs)
      iface == OrDefault(config.interface, CONTRACT_DEFAULTS.interface)
  IN IF config.t # "object" THEN Thrown(NoField)
     ELSE IF config.ports.t # "array" THEN Thrown("ports")
     ELSE IF Len(config.ports.items) = 0 THEN Thrown("ports")
     ELSE IF \E i \in 1 .. Len(config.ports.items) : ~PortOk(config.ports.items[i])
       THEN Thrown("ports")
     ELSE IF ~SampleRateOk(sampleRate) THEN Thrown("sampleRate")
     ELSE IF ~PositiveInteger(maxBodySize) THEN Thrown("maxBodySize")
     ELSE IF ~PositiveInteger(maxConcurrentConnections) THEN Thrown("maxConcurrentConnections")
     ELSE IF ~PositiveInteger(connectionIdleTimeoutMs) THEN Thrown("connectionIdleTimeoutMs")
     ELSE IF iface.t # "string" THEN Thrown("interface")
     ELSE IF /\ config.outputUrl \notin {JsNull, Undefined}
             /\ config.outputUrl # Str("")
             /\ production
             /\ UrlProtocol(config.outputUrl) # "https:"
       THEN Thrown("outputUrl")
     ELSE Returned([interface |-> iface, ports |-> config.ports.items, sampleRate |-> sampleRate,
                    maxBodySize |-> maxBodySize,
                    maxConcurrentConnections |-> maxConcurrentConnections,
                    connectionIdleTimeoutMs |-> connectionIdleTimeoutMs])

\* The values given to validateConfig.
PortsInputs ==
  {Undefined, Arr(<<>>), Arr(<<Whole(80)>>), Arr(<<Whole(1), Whole(65535)>>), Arr(<<Whole(80), Whole(0)>>),
   Arr(<<Whole(65536)>>), Arr(<<Whole(80), Half(161)>>), Arr(<<Str("80")>>)}
SampleRateInputs == {Undefined, Whole(0), Half(1), Half(3), Half(-1), NaN}
MaxBodySizeInputs == {Undefined, Whole(4096), Whole(0), Half(3), Str("4096")}
MaxConcurrentConnectionsInputs == {Undefined, Whole(5), Whole(-1)}
ConnectionIdleTimeoutMsInputs == {Undefined, Whole(1000), NaN}
InterfaceInputs == {Undefined, Str("eth0"), Whole(0)}
OutputUrlInputs ==
  {Undefined, Str("http://collector/ingest"), Str("https://collector/ingest"), Str("collector")}

SnifferConfigs ==
  [t : {"object"}, ports : PortsInputs, sampleRate : SampleRateInputs,
   maxBodySize : MaxBodySizeInputs, maxConcurrentConnections : MaxConcurrentConnectionsInputs,
   connectionIdleTimeoutMs : ConnectionIdleTimeoutMsInputs, interface : InterfaceInputs,
   outputUrl : OutputUrlInputs]

\* A config that is not an object: null, undefined or a string.
NonObject(t) ==
  [t |-> t, ports |-> Undefined, sampleRate |-> Undefined, maxBodySize |-> Undefined,
   maxConcurrentConnections |-> Undefined, connectionIdleTimeoutMs |-> Undefined,
   interface |-> Undefined, outputUrl |-> Undefined]

ValidateInit ==
  /\ v_config \in SnifferConfigs \cup {NonObject("null"), NonObject("undefined"), NonObject("string")}
  /\ v_production \in BOOLEAN
  /\ v_result = NotValidated

\* validateConfig is not being called.
ValidateIdle ==
  /\ v_config = NonObject("undefined")
  /\ v_production = FALSE
  /\ v_result = NotValidated

ValidateConfig ==
  /\ ~v_result.called
  /\ v_result' = validateConfig(v_config, v_production)
  /\ UNCHANGED <<v_config, v_production, deliverVars, postVars, injectVars,
                 streamVars, reasmVars, httpVars, bridgeVars, addonVars, stopVars>>

ValidateNext == ValidateConfig

(***************************************************************************)
(* SpecInject: injector, handleAdmissionReview                             *)
(***************************************************************************)
\* DEFAULT_INJECTOR_OPTIONS, the fields read here.
DEFAULT_INJECTOR_OPTIONS ==
  [injectLabelValue |-> "true", snifferContainerName |-> "tcp-sniffer",
   terminationGracePeriodSeconds |-> 30]

\* No patch in the response.
NoPatch == <<>>

\* isEligibleForInjection(pod, options): the pod has labels and its inject label has
\* the value asked for.  label is "none" when the pod has no such label.
isEligibleForInjection(pod, options) ==
  pod.metadata /\ pod.label # "none" /\ pod.label = options.injectLabelValue

\* The mutation of alreadyHasSniffer used to test C26: no pod is taken as injected.
alreadyHasSnifferNever(pod, options) == FALSE

\* alreadyHasSniffer(pod, options): names.includes(options.snifferContainerName)
alreadyHasSniffer(pod, options) ==
  /\ pod.containers.defined
  /\ \E i \in 1 .. Len(pod.containers.names) :
       pod.containers.names[i] = options.snifferContainerName

\* buildPatch(pod, options): the JSON Patch operations, each one with its path and,
\* for a container, the name of the container added.
buildPatch(pod, options) ==
  LET container == options.snifferContainerName
      ops == IF pod.containers.defined /\ Len(pod.containers.names) > 0
               THEN <<[op |-> "add", path |-> "/spec/containers/-", name |-> container, value |-> 0]>>
               ELSE <<[op |-> "add", path |-> "/spec/containers", name |-> container, value |-> 0]>>
  IN IF ~pod.grace.defined
       THEN Append(ops, [op |-> "add", path |-> "/spec/terminationGracePeriodSeconds",
                         name |-> "", value |-> options.terminationGracePeriodSeconds])
       ELSE ops

\* The response of handleAdmissionReview: allowed, the status code when refused
\* (0 when there is none), and the patch (its operations; NoPatch when there is none).
Response(allowed, code, patch) ==
  [reviewed |-> TRUE, allowed |-> allowed, code |-> code, patch |-> patch]
NotReviewed == [reviewed |-> FALSE, allowed |-> FALSE, code |-> 0, patch |-> NoPatch]

\* handleAdmissionReview(body, options) on a body that has a request.
handleAdmissionReview(req, options) ==
  IF ~req.uid THEN Response(FALSE, 400, NoPatch)
  ELSE IF req.operation \notin {"CREATE", "UPDATE"} THEN Response(TRUE, 0, NoPatch)
  ELSE IF ~req.object.metadata THEN Response(FALSE, 400, NoPatch)
  ELSE IF ~isEligibleForInjection(req.object, options) THEN Response(TRUE, 0, NoPatch)
  ELSE IF alreadyHasSniffer(req.object, options) THEN Response(TRUE, 0, NoPatch)
  ELSE Response(TRUE, 0, buildPatch(req.object, options))

\* RFC 6902 add, for the three paths buildPatch uses, applied by the API server.
ApplyOp(pod, o) ==
  IF o.path = "/spec/containers/-"
    THEN [pod EXCEPT !.containers.names = Append(@, o.name)]
  ELSE IF o.path = "/spec/containers"
    THEN [pod EXCEPT !.containers = [defined |-> TRUE, names |-> <<o.name>>]]
  ELSE [pod EXCEPT !.grace = [defined |-> TRUE, value |-> o.value]]

RECURSIVE ApplyPatch(_, _)
ApplyPatch(pod, ops) ==
  IF ops = <<>> THEN pod ELSE ApplyPatch(ApplyOp(pod, Head(ops)), Tail(ops))

MaxReviews == 3

ContainerLists ==
  {[defined |-> FALSE, names |-> <<>>], [defined |-> TRUE, names |-> <<>>],
   [defined |-> TRUE, names |-> <<"app">>],
   [defined |-> TRUE, names |-> <<"app", "tcp-sniffer">>],
   [defined |-> TRUE, names |-> <<"tcp-sniffer", "app">>],
   [defined |-> TRUE, names |-> <<"app", "tcp-sniffer-2">>]}

Pods ==
  [metadata : BOOLEAN, label : {"none", "true", "false"}, containers : ContainerLists,
   grace : {[defined |-> FALSE, value |-> 0], [defined |-> TRUE, value |-> 60]}]

\* The number of containers of the pod named as the sniffer.
SnifferCount(pod) ==
  Cardinality({i \in 1 .. Len(pod.containers.names) :
                 pod.containers.names[i] = DEFAULT_INJECTOR_OPTIONS.snifferContainerName})

InjectInit ==
  /\ i_pod \in Pods
  /\ i_response = NotReviewed
  /\ i_log = <<>>

\* No pod is under admission.
InjectIdle ==
  /\ i_pod = [metadata |-> TRUE, label |-> "none", containers |-> [defined |-> FALSE, names |-> <<>>],
              grace |-> [defined |-> FALSE, value |-> 0]]
  /\ i_response = NotReviewed
  /\ i_log = <<>>

\* The API server sends the pod for admission; the webhook answers.  i_log keeps, for
\* each review, the request and the answer.
HandleAdmissionReview ==
  /\ Len(i_log) < MaxReviews
  /\ \E operation \in {"CREATE", "UPDATE", "DELETE"}, uid \in BOOLEAN :
       LET req == [uid |-> uid, operation |-> operation, object |-> i_pod]
           res == handleAdmissionReview(req, DEFAULT_INJECTOR_OPTIONS)
       IN /\ i_response' = res
          /\ i_log' = Append(i_log, [req |-> req, res |-> res])
  /\ UNCHANGED <<i_pod, deliverVars, postVars, validVars, streamVars, reasmVars, httpVars, bridgeVars, addonVars, stopVars>>

\* The API server applies the patch of the answer to the pod.
ApiServerAppliesPatch ==
  /\ i_response.reviewed
  /\ i_response.patch # NoPatch
  /\ i_pod' = ApplyPatch(i_pod, i_response.patch)
  /\ i_response' = NotReviewed
  /\ UNCHANGED <<i_log, deliverVars, postVars, validVars, streamVars, reasmVars, httpVars, bridgeVars, addonVars, stopVars>>

InjectNext == HandleAdmissionReview \/ ApiServerAppliesPatch

(***************************************************************************)
(* The specifications                                                      *)
(***************************************************************************)
\* Each specification starts every part of the pipeline in its constructed state.
Init ==
  /\ StreamInit /\ ReasmInit /\ BridgeInit /\ HttpInit /\ OutputIdle /\ ValidateIdle /\ InjectIdle /\ AddonIdle /\ StopIdle
  /\ h_input = 1
  /\ max_conn = MaxConcurrentConnections

InitHttp ==
  /\ StreamInit /\ ReasmInit /\ BridgeInit /\ HttpInit /\ OutputIdle /\ ValidateIdle /\ InjectIdle /\ AddonIdle /\ StopIdle
  /\ max_conn = MaxConcurrentConnections

\* The addon started with maxConcurrentConnections = CaptureMaxConn.
InitCapture ==
  /\ StreamInit /\ ReasmInit /\ BridgeInit /\ HttpInit /\ OutputIdle /\ ValidateIdle /\ InjectIdle /\ AddonIdle /\ StopIdle
  /\ h_input = 1
  /\ max_conn = CaptureMaxConn

SpecStream == Init /\ [][StreamNext]_vars

SpecReasm == Init /\ [][ReasmNext]_vars

SpecHandshake == Init /\ [][HandshakeNext]_vars

SpecHttp == InitHttp /\ [][HttpNext]_vars

SpecBridge == Init /\ [][BridgeNext]_vars

\* deliverMessage called once with each configuration and message.
InitOutput ==
  /\ StreamInit /\ ReasmInit /\ BridgeInit /\ HttpInit /\ OutputInit /\ ValidateIdle /\ InjectIdle /\ AddonIdle /\ StopIdle
  /\ h_input = 1
  /\ max_conn = MaxConcurrentConnections

SpecOutput == InitOutput /\ [][OutputNext]_vars

InitValidate ==
  /\ StreamInit /\ ReasmInit /\ BridgeInit /\ HttpInit /\ OutputIdle /\ ValidateInit /\ InjectIdle /\ AddonIdle /\ StopIdle
  /\ h_input = 1
  /\ max_conn = MaxConcurrentConnections

SpecValidate == InitValidate /\ [][ValidateNext]_vars

InitInject ==
  /\ StreamInit /\ ReasmInit /\ BridgeInit /\ HttpInit /\ OutputIdle /\ ValidateIdle /\ InjectInit /\ AddonIdle /\ StopIdle
  /\ h_input = 1
  /\ max_conn = MaxConcurrentConnections

SpecInject == InitInject /\ [][InjectNext]_vars

SpecAddon == Init /\ [][AddonNext]_vars

InitPorts ==
  /\ StreamInit /\ ReasmInit /\ BridgeInit /\ HttpInit /\ OutputIdle /\ ValidateIdle /\ InjectIdle
  /\ PortsInit /\ StopIdle
  /\ h_input = 1
  /\ max_conn = MaxConcurrentConnections

SpecPorts == InitPorts /\ [][PortsNext]_vars

\* Both threads run: the capture thread goes on with what it is doing, and the
\* embedder thread goes on inside stop().
SpecStop ==
  /\ Init /\ [][StopNext]_vars
  /\ WF_vars(HandlerBlockingCall) /\ WF_vars(HandlerReturns) /\ WF_vars(LoopBreaks)
  /\ WF_vars(StopJoins) /\ WF_vars(StopCloses)

\* Every fetch settles and every timer fires; nothing obliges a call of postToUrl.
SpecPost == Init /\ [][PostNext]_vars /\ WF_vars(FetchSettles) /\ WF_vars(TimerFires)

\* The capture goes on handing segments of the connections other than A to on_seg,
\* and time goes on.
SpecCapture ==
  InitCapture /\ [][CaptureNext]_vars /\ WF_vars(OnSegOthers) /\ WF_vars(Tick)

\* The event loop runs a pending continuation and a queued callback; nothing obliges
\* the embedder to call start() or stop(), nor the capture to produce or to fail.
SpecBridgeFair == SpecBridge /\ WF_vars(StartResume) /\ WF_vars(TsfDispatch)

\* SpecBridge leaves every POST in flight: their end changes nothing the bridge reads.
\* SpecDrain lets them end, at any time.
SpecDrain == Init /\ [][DrainNext]_vars

(***************************************************************************)
(* Properties of the Reassembler                                           *)
(***************************************************************************)
\* The StreamStates the connection table holds.
LiveStreams ==
  { connections[k].client_to_server : k \in DOMAIN connections }
  \cup { connections[k].server_to_client : k \in DOMAIN connections }

\* Each chunk starts where the chunk before it ended (32-bit arithmetic, scaled).
Contiguous(out) ==
  \A i \in 2 .. Len(out) : out[i].seq = U32(out[i - 1].seq + Len(out[i - 1].data))

\* C2: for every direction of every connection in the table, each chunk the
\* Reassembler emitted starts at the sequence number at which the chunk emitted
\* before it ended, and next_seq is the end of the last one: nothing between two
\* emitted chunks is skipped or repeated.
C2_ChunksContiguous ==
  \A st \in LiveStreams :
    /\ Contiguous(st.out)
    /\ st.out # <<>> =>
         st.next_seq = U32(st.out[Len(st.out)].seq + Len(st.out[Len(st.out)].data))

\* C2 witness: a stream that has emitted two chunks and still buffers a segment
\* that arrived ahead of next_seq.
C2_Witness ==
  \E st \in LiveStreams : Len(st.out) >= 2 /\ st.segments # <<>>

\* C5: after every push_segment and every evict_idle the connection table
\* holds at most max_concurrent_connections connections.
C5_ConnectionCap == Cardinality(DOMAIN connections) <= MaxConcurrentConnections

\* C5 witness: the cap evicted a connection and the table is full.
C5_Witness ==
  /\ eviction_log # <<>>
  /\ clock = 0
  /\ Cardinality(DOMAIN connections) = MaxConcurrentConnections

\* The stream state after pushing segs, in order, to st.
RECURSIVE RunStream(_, _)
RunStream(st, segs) ==
  IF segs = <<>> THEN st ELSE RunStream(process_segment(st, Head(segs)), Tail(segs))

\* The segments of hist, each kept at its first arrival only.
RECURSIVE Dedup(_)
Dedup(hist) ==
  IF hist = <<>> THEN <<>>
  ELSE LET n == Len(hist)
           front == Dedup(SubSeq(hist, 1, n - 1))
       IN IF \E i \in 1 .. n - 1 : hist[i] = hist[n] THEN front ELSE Append(front, hist[n])

\* The segments of a set, in order of sequence number.
RECURSIVE InOrder(_)
InOrder(S) ==
  IF S = {} THEN <<>>
  ELSE LET lo == CHOOSE x \in S : \A y \in S : x.seq <= y.seq
       IN <<lo>> \o InOrder(S \ {lo})

\* Payload segments that tile a range of the stream: no two at one sequence
\* number, each starting where the one before it ends, no wraparound.
Tiling(S) ==
  /\ \A x \in S : x.payload # <<>> /\ ~x.syn /\ x.seq + Len(x.payload) < SeqMod
  /\ \A x, y \in S : x.seq = y.seq => x = y
  /\ LET o == InOrder(S)
     IN \A i \in 2 .. Len(o) : o[i].seq = o[i - 1].seq + Len(o[i - 1].payload)

HistSet == { s_hist[i] : i \in 1 .. Len(s_hist) }

\* C3: whatever the arrival order of the payload segments of one direction
\* (all of them present, repeats allowed), the chunks emitted are those of
\* the in-order arrival: (seq 2 "C", seq 0 "AB", seq 0 "AB", seq 2 "C") emits
\* "AB" then "C".
C3_ReorderingInvariance ==
  Tiling(HistSet) => s_stream.out = RunStream(StreamStateInit, InOrder(HistSet)).out

\* The payload bytes of the segments of a set.
RECURSIVE PayloadBytes(_)
PayloadBytes(S) ==
  IF S = {} THEN 0
  ELSE LET x == CHOOSE y \in S : TRUE IN Len(x.payload) + PayloadBytes(S \ {x})

\* C4: pushing a segment again, at any later position, leaves the emitted
\* chunks those of the input without the repeats (for a stream shorter than
\* the sequence space, so that a sequence number names one byte only).
C4_DuplicateInvariance ==
  PayloadBytes(HistSet) < SeqMod =>
    s_stream.out = RunStream(StreamStateInit, Dedup(s_hist)).out

\* Away from the wrap of the sequence space a repeated segment changes nothing:
\* the failure of duplicate invariance needs a stream that crosses the wrap.
DuplicateInvarianceAwayFromWrap ==
  (\A x \in HistSet : x.seq + Len(x.payload) < SeqMod /\ (x.syn => x.seq + 1 < SeqMod)) =>
    s_stream.out = RunStream(StreamStateInit, Dedup(s_hist)).out

(***************************************************************************)
(* Properties of the HTTP parser                                           *)
(***************************************************************************)
TheStream == Streams[h_input]

AllFed == h_fed = Len(StreamBytes(h_input))

\* The offset in the stream at which its k-th message ends.
UnitEnd(k) == Len(Concat(SubSeq(TheStream, 1, k)))

\* The messages of the stream that lie wholly in the bytes fed so far.
CompleteUnits == Cardinality({ k \in 1 .. Len(TheStream) : UnitEnd(k) <= h_fed })

\* Well-formed HTTP/1.1 messages of the catalogue.
WellFormed11 == {"req", "res2", "big", "chunk", "chbig", "bin", "utf"}

\* Messages with no body, or a Content-Length body within max_body_size.
PlainUnits == {"req", "res2"}

\* C6: the bytes of one well-formed HTTP/1.1 message, split across feed()
\* calls at any positions, produce the records that one feed() of all the
\* bytes produces.
C6_SplitInvariance ==
  (Len(TheStream) = 1 /\ TheStream[1] \in WellFormed11 /\ AllFed) =>
    emitted = feed(ParserInit, StreamBytes(h_input)).out

\* C7: when a feed() call returns, every message that lies wholly in the
\* bytes fed so far has been passed to the callback: k complete pipelined
\* messages in the accumulator give k records by the end of that call.
C7_AllCompleteMessagesEmitted ==
  (\A k \in 1 .. Len(TheStream) : TheStream[k] \in PlainUnits) =>
    Len(emitted) = CompleteUnits

\* What a record of the truncated message "big" must be: status 200, the
\* first max_body_size bytes of "0123456789", body_truncated set.
IsTruncatedBig(m) ==
  /\ ~m.is_request /\ m.status_code = 200
  /\ m.body = Take(<<48, 49, 50, 51, 52, 53, 54, 55, 56, 57>>, MaxBodySize)
  /\ m.body_truncated
  /\ m.body_encoding = ""

\* What a record of the message "res2" must be.
IsRes2(m) ==
  /\ ~m.is_request /\ m.status_code = 200
  /\ m.body = <<111, 107>>
  /\ ~m.body_truncated
  /\ m.body_encoding = ""

\* The part of C8 that is about alignment only: whenever the record of the
\* truncated message is emitted it is the right one, the parser then stands
\* right after the declared body, and the next record is that of the
\* message that follows.
TruncationAlignedWhenEmitted ==
  TheStream[1] = "big" =>
    /\ Len(emitted) >= 1 => IsTruncatedBig(emitted[1])
    /\ (Len(emitted) = 1 /\ parser.state_ = "kHeaders") =>
         h_fed - Len(parser.buffer_) = UnitEnd(1)
    /\ (Len(emitted) >= 2 /\ Len(TheStream) >= 2 /\ TheStream[2] = "res2") =>
         IsRes2(emitted[2])

\* C8: a message whose Content-Length exceeds max_body_size gives a record
\* with the first max_body_size bytes of the body and body_truncated set;
\* exactly Content-Length body bytes are consumed and the message after it
\* is parsed from the byte after the declared body.
C8_TruncationKeepsAlignment ==
  /\ TruncationAlignedWhenEmitted
  /\ (TheStream[1] = "big" /\ AllFed) => Len(emitted) >= 1

\* C9: every emitted record has a body of at most max_body_size bytes, and
\* a record with body_truncated set has a body of exactly max_body_size bytes
\* or body_encoding "binary"; for Content-Length and for chunked bodies.
C9_BodyWithinMax ==
  \A i \in 1 .. Len(emitted) :
    /\ Len(emitted[i].body) <= MaxBodySize
    /\ emitted[i].body_truncated =>
         (Len(emitted[i].body) = MaxBodySize \/ emitted[i].body_encoding = "binary")

\* C9 witness: the record of a truncated body (Content-Length or chunked) has
\* been emitted with max_body_size bytes kept.
C9_Witness ==
  \E i \in 1 .. Len(emitted) :
    /\ emitted[i].body_truncated
    /\ Len(emitted[i].body) = MaxBodySize
    /\ TheStream[1] \in {"big", "chbig"}

\* The messages of the stream before its first malformed one.
UnitsBeforeJunk ==
  Cardinality({ k \in 1 .. Len(TheStream) : \A j \in 1 .. k : TheStream[j] # "junk" })

\* C10: once malformed bytes are met on a stream, no record is emitted for
\* them or for anything fed after them: the records are at most those of
\* the messages before the malformed bytes.
C10_NonHttpAbsorbing == Len(emitted) <= UnitsBeforeJunk

(***************************************************************************)
(* Properties of the bridge                                                *)
(***************************************************************************)
\* C1: every record the capture thread enqueued before stop() was called has
\* been passed to the message callback by the time stop() returns: at each
\* return of Stop no record is left in a queue.
C1_DrainOnStop == \A i \in 1 .. Len(stop_log) : stop_log[i] = {}

\* C11: a fatal failure of the running capture is never lost: once pcap_loop has
\* failed, the embedder's error callback is eventually called with UNRECOVERABLE.
C11_RuntimeFailureReported ==
  engine.loop_failed ~> (\E i \in 1 .. Len(on_error) : on_error[i].code = "UNRECOVERABLE")

\* The part of C12 about the capture thread: after a failed open no capture thread
\* executes and is_running() is false.
OpenFailureStartsNoThread ==
  engine.last_error_code_ = "CAPTURE_OPEN_FAILED" => (~engine.running_ /\ live = 0)

\* C12: when the capture cannot be opened, start fails with a typed code, the error
\* given to the caller carries INVALID_INTERFACE or CAPTURE_OPEN_FAILED, no capture
\* thread is started and is_running() is false afterwards.
C12_OpenFailureTyped ==
  /\ OpenFailureStartsNoThread
  /\ \A i \in 1 .. Len(on_error) :
       on_error[i].engine_code = "CAPTURE_OPEN_FAILED"
         => on_error[i].code \in {"INVALID_INTERFACE", "CAPTURE_OPEN_FAILED"}

LastCall == IF api_log = <<>> THEN "none" ELSE api_log[Len(api_log)]

\* The part of C14 about start: isRunning() is false until start() has been called.
NotRunningBeforeStart == (\A i \in 1 .. Len(api_log) : api_log[i] # "start") => ~sn_running

\* C14: isRunning() is true exactly between a successful start and the beginning of
\* the next stop: once stop() has resolved it stays false until start() is called
\* again, also when stop() was called while start() was still pending.
C14_StoppedStaysStopped == LastCall = "stop" => ~sn_running

\* A step that is a call of stop().
IsStopCall == Len(api_log') = Len(api_log) + 1 /\ api_log'[Len(api_log')] = "stop"

\* C15: stop() is idempotent.  A call made when the sniffer is not running does not
\* reach the engine (no thread joined, no function released, no return of Stop) and
\* leaves isRunning() false; after any call of stop() isRunning() is false, so a
\* second call is such a call.
C15_StopIdempotent ==
  [][IsStopCall =>
       /\ ~sn_running'
       /\ ~sn_running => UNCHANGED <<engine, tsf, g_message_tsf, stop_log, live,
                                     produced, delivered, on_error, process>>]_vars

\* stop() was called twice in a row after a start, the second time when not running.
C15_Witness ==
  /\ Len(api_log) >= 3
  /\ api_log[Len(api_log)] = "stop"
  /\ api_log[Len(api_log) - 1] = "stop"
  /\ Len(stop_log) = 1
  /\ ~sn_running

(***************************************************************************)
(* Properties of the connection table, continued                           *)
(***************************************************************************)
\* A step in which push_segment evicted a connection to keep the cap.
IsCapEviction == pushes' = pushes + 1 /\ Len(eviction_log') = Len(eviction_log) + 1

\* C17: the eviction that keeps the cap removes the connection admitted first: the
\* key evicted by a push_segment was in the table before the call and no connection
\* of the table had been admitted before it.
C17_EvictsOldestAdmitted ==
  [][IsCapEviction =>
       LET k == eviction_log'[Len(eviction_log')]
       IN /\ k \in DOMAIN connections
          /\ \A j \in DOMAIN connections : connections[k].admitted <= connections[j].admitted]_vars

\* The part of C17 about coming back: a connection created by a call of push_segment
\* that is still in the table after it is the one admitted last.
ReadmittedIsNewest ==
  \A k \in DOMAIN connections : \A j \in DOMAIN connections :
    connections[k].admitted = pushes => connections[j].admitted <= connections[k].admitted

\* Connection A is in the table and has been idle for the timeout.
IdleA == KeyA \in DOMAIN connections /\ IsIdle(connections[KeyA], clock)

\* C16: a connection that has been idle for the timeout is eventually removed from
\* the table while the capture goes on admitting segments of other connections: it
\* does not stay in the table, idle, for ever.
C16_IdleEventuallyEvicted == IdleA ~> ~IdleA

(***************************************************************************)
(* Properties of the parser, continued                                     *)
(***************************************************************************)
\* C18: the direction of a record is that of the stream it came from, whatever the
\* bytes of the stream: the records of one parser, which is fed one direction of one
\* connection, all have the same direction.
C18_DirectionFromStream ==
  \A i \in 1 .. Len(emitted) : \A j \in 1 .. Len(emitted) :
    emitted[i].is_request = emitted[j].is_request

(***************************************************************************)
(* Properties of the bridge, continued                                     *)
(***************************************************************************)
\* C19: the path from BlockingCall to the message callback never reorders the
\* records the capture thread enqueued during a run, so for each parser (one
\* direction of one connection) the callback is given the records in the order in
\* which the parser completed them.
C19_DeliveredInStreamOrder ==
  \A a \in 1 .. Len(delivered) : \A b \in 1 .. Len(delivered) :
    (a < b /\ delivered[a].tsf = delivered[b].tsf) => delivered[a].id < delivered[b].id

\* Two records of one parser were delivered while a record of the other parser,
\* enqueued between them, was delivered between them.
C19_Witness ==
  \E a \in 1 .. Len(delivered) : \E b \in 1 .. Len(delivered) : \E c \in 1 .. Len(delivered) :
    /\ a < b /\ b < c
    /\ delivered[a].tsf = delivered[c].tsf
    /\ delivered[a].key = delivered[c].key
    /\ delivered[b].key # delivered[a].key

(***************************************************************************)
(* Properties of the output                                                *)
(***************************************************************************)
\* The names deliverMessage redacts under a configuration, lower-cased.
RedactedNames(config) ==
  LET names == IF config.redactHeaders.defined THEN config.redactHeaders.names
               ELSE DEFAULT_REDACT_HEADERS
  IN { toLowerCase(names[i]) : i \in 1 .. Len(names) }

\* Two messages that differ only in the values of headers whose names are listed.
DifferOnlyInRedacted(m1, m2, lowerNames) ==
  /\ m1.direction = m2.direction
  /\ Len(m1.headers) = Len(m2.headers)
  /\ \A i \in 1 .. Len(m1.headers) :
       /\ m1.headers[i].name = m2.headers[i].name
       /\ toLowerCase(m1.headers[i].name) \notin lowerNames
            => m1.headers[i].value = m2.headers[i].value

\* C20: redaction comes before every output.  For any message differing from the one
\* delivered only in the values of listed headers, deliverMessage hands the same
\* content to the callback, to stdout and to the POST; the value the callback gets
\* for a listed header is "[REDACTED]", the stdout line and the POST body are the
\* serialisation of what the callback gets, and the message passed in is unmodified.
C20_RedactedBeforeOutput ==
  o_out.called =>
    LET lowerNames == RedactedNames(o_config)
    IN /\ \A m2 \in Messages :
            DifferOnlyInRedacted(o_msg, m2, lowerNames) =>
              LET out2 == deliverMessage(o_config, m2)
              IN /\ out2.callback = o_out.callback
                 /\ out2.stdout = o_out.stdout
                 /\ out2.post = o_out.post
       /\ \A c \in 1 .. Len(o_out.callback) :
            /\ \A i \in 1 .. Len(o_out.callback[c].headers) :
                 toLowerCase(o_out.callback[c].headers[i].name) \in lowerNames
                   => o_out.callback[c].headers[i].value = StrRedacted
            /\ \A l \in 1 .. Len(o_out.stdout) :
                 o_out.stdout[l] = JSON_stringify(o_out.callback[c]) \o <<LF>>
            /\ \A b \in 1 .. Len(o_out.post) :
                 o_out.post[b] = JSON_stringify(o_out.callback[c])
       /\ o_out.msg = o_msg

\* A message with an Authorization header in other than lower case and a header that
\* is not listed went to the three outputs under the default list.
C20_Witness ==
  /\ o_out.called
  /\ ~o_config.redactHeaders.defined
  /\ Len(o_out.callback) = 1 /\ Len(o_out.stdout) = 1 /\ Len(o_out.post) = 1
  /\ Len(o_msg.headers) = 2
  /\ o_msg.headers[1].name \notin { StrAuthorization, StrCookie }
  /\ toLowerCase(o_msg.headers[1].name) = StrAuthorization
  /\ toLowerCase(o_msg.headers[2].name) \notin RedactedNames(o_config)
  /\ o_out.callback[1].headers[1].value = StrRedacted
  /\ o_out.callback[1].headers[2].value = o_msg.headers[2].value

\* C21: an exception thrown by onHttpMessage is caught: deliverMessage does not
\* throw, the message still goes to stdout and to the POST when they are configured,
\* and the calls that follow still give their message to the callback.
C21_CallbackErrorSwallowed ==
  o_out.called =>
    /\ ~o_out.threw
    /\ o_config.onHttpMessage => Len(o_out.callback) = 1
    /\ o_config.outputStdout => Len(o_out.stdout) = 1
    /\ o_config.outputUrl => Len(o_out.post) = 1

\* A second message was delivered to a callback that throws, with stdout and the POST
\* configured.
C21_Witness ==
  /\ o_calls = 2
  /\ o_config.onHttpMessage /\ o_config.callbackThrows
  /\ o_config.outputStdout /\ o_config.outputUrl
  /\ o_out.logged
  /\ Len(o_out.callback) = 1 /\ Len(o_out.stdout) = 1 /\ Len(o_out.post) = 1

\* What C22 says of every state of a call of postToUrl: at most four fetches (the
\* first and three retries), the waits made are 1s, 2s, 4s in that order, one before
\* each retry, no fetch follows an ok response, the message is dropped and logged only
\* after the fourth failure, and nothing is thrown.
PostRetriesSafe ==
  /\ Len(post.fetches) <= 4
  /\ Len(post.waits) <= Len(RETRY_DELAYS_MS)
  /\ \A w \in 1 .. Len(post.waits) : post.waits[w] = RETRY_DELAYS_MS[w]
  /\ post.pc = "fetch" => Len(post.waits) = Len(post.fetches)
  /\ post.pc = "wait" => Len(post.waits) = Len(post.fetches) - 1
  /\ \A a \in 1 .. Len(post.fetches) :
       ResponseOk(post.fetches[a]) => (a = Len(post.fetches) /\ post.pc = "returned" /\ ~post.logged)
  /\ post.logged => (post.pc = "returned" /\ Len(post.fetches) = 4)
  /\ ~post.threw

\* C22: postToUrl makes the first POST and at most 3 retries, waiting 1s, 2s and 4s
\* before them, stops at the first ok response, logs and drops after the last failure
\* without throwing, and always terminates.
C22_PostRetries == []PostRetriesSafe /\ (post.pc # "idle" ~> post.pc = "returned")

\* Four fetches failed, the three waits were made, and the message was dropped.
C22_Witness ==
  /\ post.pc = "returned"
  /\ post.logged
  /\ Len(post.fetches) = 4
  /\ post.waits = RETRY_DELAYS_MS

\* C23: when a stop() that stopped the engine resolves, no POST of a message
\* delivered to the TS layer before it is still in flight.
C23_StopDrainsOutputs == \A k \in 1 .. Len(drain_log) : drain_log[k] = 0

(***************************************************************************)
(* Properties of validateConfig                                            *)
(***************************************************************************)
\* The settings of a config object that break the constraint stated for them.
PortsValid(c) ==
  /\ c.ports.t = "array"
  /\ Len(c.ports.items) > 0
  /\ \A i \in 1 .. Len(c.ports.items) :
       LET p == c.ports.items[i]
       IN p.t = "number" /\ p.s # "NaN" /\ p.n % 2 = 0 /\ p.n >= 2 /\ p.n <= 2 * 65535
SampleRateValid(c) ==
  c.sampleRate = Undefined
    \/ (c.sampleRate.t = "number" /\ c.sampleRate.s # "NaN" /\ c.sampleRate.n \in 0 .. 2)
PositiveIntegerOrAbsent(x) ==
  x = Undefined \/ (x.t = "number" /\ x.s # "NaN" /\ x.n % 2 = 0 /\ x.n > 0)
InterfaceValid(c) == c.interface = Undefined \/ c.interface.t = "string"
OutputUrlValid(c, production) ==
  production =>
    c.outputUrl \in {Undefined, JsNull, Str(""), Str("https://collector/ingest")}

\* The conditions the claim lists.
ListedValid(c) ==
  /\ PortsValid(c)
  /\ SampleRateValid(c)
  /\ PositiveIntegerOrAbsent(c.maxBodySize)
  /\ PositiveIntegerOrAbsent(c.maxConcurrentConnections)
  /\ PositiveIntegerOrAbsent(c.connectionIdleTimeoutMs)

\* The settings checked, in the order of the checks, and whether each is valid.
CheckedFields ==
  <<"ports", "sampleRate", "maxBodySize", "maxConcurrentConnections",
    "connectionIdleTimeoutMs", "interface", "outputUrl">>
FieldValid(c, production, f) ==
  CASE f = "ports" -> PortsValid(c)
    [] f = "sampleRate" -> SampleRateValid(c)
    [] f = "maxBodySize" -> PositiveIntegerOrAbsent(c.maxBodySize)
    [] f = "maxConcurrentConnections" -> PositiveIntegerOrAbsent(c.maxConcurrentConnections)
    [] f = "connectionIdleTimeoutMs" -> PositiveIntegerOrAbsent(c.connectionIdleTimeoutMs)
    [] f = "interface" -> InterfaceValid(c)
    [] f = "outputUrl" -> OutputUrlValid(c, production)

\* The EngineConfig returned is the normalized config: defaults for the omitted
\* fields, the values provided for the others, the ports copied.
Normalized(c, e) ==
  /\ e.ports = c.ports.items
  /\ e.sampleRate = IF c.sampleRate = Undefined THEN Whole(1) ELSE c.sampleRate
  /\ e.maxBodySize = IF c.maxBodySize = Undefined THEN Whole(1048576) ELSE c.maxBodySize
  /\ e.maxConcurrentConnections =
       IF c.maxConcurrentConnections = Undefined THEN Whole(10000) ELSE c.maxConcurrentConnections
  /\ e.connectionIdleTimeoutMs =
       IF c.connectionIdleTimeoutMs = Undefined THEN Whole(300000) ELSE c.connectionIdleTimeoutMs
  /\ e.interface = IF c.interface = Undefined THEN Str("") ELSE c.interface

C25_InvalidStartChangesNothing ==
  [][(api_log' = Append(api_log, "start_invalid")) =>
       /\ ~sn_running'
       /\ UNCHANGED <<engine, tsf, g_message_tsf, produced, delivered, stop_log, sn_running,
                      sn_pending, on_error, process, live, posting, drain_log, sn_handlers>>]_vars

\* A fresh sniffer's first start() was invalid, no handler is attached, and its next
\* start() went through: the sniffer is running.
C25_Witness ==
  /\ Len(api_log) >= 2
  /\ api_log[1] = "start_invalid"
  /\ api_log[2] = "start"
  /\ sn_running
  /\ sn_handlers

(***************************************************************************)
(* Properties of the injector                                              *)
(***************************************************************************)
\* C26: every review of a pod (a CREATE or UPDATE request with a uid, of a pod with
\* metadata) that already has a container with the sniffer name is answered
\* allowed with no patch, and a pod admitted any number of times never gets a second
\* container with that name.
C26_NeverInjectsTwice ==
  /\ \A k \in 1 .. Len(i_log) :
       LET e == i_log[k]
       IN (/\ e.req.uid
           /\ e.req.operation \in {"CREATE", "UPDATE"}
           /\ e.req.object.metadata
           /\ SnifferCount(e.req.object) > 0)
            => (e.res.allowed /\ e.res.patch = NoPatch)
  /\ SnifferCount(i_pod) <= 1

\* A pod was patched, admitted again with the patch applied, and answered with no patch.
C26_Witness ==
  /\ Len(i_log) >= 2
  /\ i_log[1].res.patch # NoPatch
  /\ SnifferCount(i_log[1].req.object) = 0
  /\ i_log[2].req.uid
  /\ i_log[2].req.operation = "CREATE"
  /\ SnifferCount(i_log[2].req.object) = 1
  /\ i_log[2].res.allowed
  /\ i_log[2].res.patch = NoPatch

(***************************************************************************)
(* Properties of the parser: chunked bodies, content length, encoding      *)
(***************************************************************************)
\* What the record of the message "chunk" must be: status 200 and the body "hi!",
\* the data of its two chunks.
IsChunkHi(m) ==
  /\ ~m.is_request /\ m.status_code = 200
  /\ m.body = <<104, 105, 33>>
  /\ ~m.body_truncated
  /\ m.body_encoding = ""

\* C27: however the bytes of a chunked message are divided across feed() calls, the
\* record emitted for it has the concatenation of its chunks' data as body, and it
\* has been emitted once the whole message has been fed.
C27_ChunkedResumable ==
  TheStream[1] = "chunk" =>
    /\ Len(emitted) >= 1 => IsChunkHi(emitted[1])
    /\ h_fed >= UnitEnd(1) => Len(emitted) >= 1

\* What the record of the message "req" must be: GET /a with its Host header.
IsReqA(m) ==
  /\ m.is_request
  /\ m.method = <<71, 69, 84>>
  /\ m.path = <<47, 97>>
  /\ DOMAIN m.headers = {<<104, 111, 115, 116>>}
  /\ m.body = <<>>

\* C28: when the record of a chunked message has been emitted, with the body of its
\* chunks, the parser has consumed the message up to and including the CRLF after the
\* zero chunk, and the record after it is that of the message pipelined after it.
C28_ZeroChunkCrlfConsumed ==
  (TheStream = <<"chunk", "req">> /\ Len(emitted) >= 1 /\ IsChunkHi(emitted[1])) =>
    /\ (Len(emitted) = 1 /\ parser.state_ = "kHeaders") =>
         h_fed - Len(parser.buffer_) = UnitEnd(1)
    /\ Len(emitted) >= 2 => IsReqA(emitted[2])

\* The messages of the catalogue whose content-length is absent, 0, or not a
\* non-negative integer, and that are not chunked.
NoLengthUnits == {"req", "lf", "cl0", "clx", "clneg"}

\* The part of C29 about a content-length that is absent, 0 or not a number.
NoLengthEmittedAtOnce ==
  TheStream[1] \in {"req", "lf", "cl0", "clx"} =>
    /\ h_fed >= UnitEnd(1) => Len(emitted) >= 1
    /\ Len(emitted) >= 1 => (emitted[1].body = <<>> /\ ~emitted[1].body_truncated)

\* C29: a message that is not chunked and whose content-length is absent, 0 or not
\* parseable as a non-negative integer is emitted, with an empty body, by the feed()
\* call that completes its header block.
C29_NoLengthMeansEmpty ==
  TheStream[1] \in NoLengthUnits =>
    /\ h_fed >= UnitEnd(1) => Len(emitted) >= 1
    /\ Len(emitted) >= 1 => (emitted[1].body = <<>> /\ ~emitted[1].body_truncated)

\* The part of C30 about a Content-Length body: the record of "bin" has the encoding
\* "binary" and no body text, the parser then stands right after the declared body,
\* and the record after it is that of the message that follows.
BinaryLengthBodyAligned ==
  TheStream[1] = "bin" =>
    /\ h_fed >= UnitEnd(1) => Len(emitted) >= 1
    /\ Len(emitted) >= 1 =>
         (emitted[1].body_encoding = "binary" /\ emitted[1].body = <<>>
            /\ emitted[1].status_code = 200)
    /\ (Len(emitted) = 1 /\ parser.state_ = "kHeaders") =>
         h_fed - Len(parser.buffer_) = UnitEnd(1)
    /\ (Len(emitted) >= 2 /\ Len(TheStream) >= 2 /\ TheStream[2] = "res2") =>
         IsRes2(emitted[2])

\* C30: the record of a body that is not well-formed UTF-8, declared by
\* Content-Length or chunked, has the encoding "binary" and no body text; when it has
\* been emitted the parser has consumed the whole declared body, and the record after
\* it is that of the message that follows.
C30_BinaryBodyConsumed ==
  /\ BinaryLengthBodyAligned
  /\ TheStream[1] = "chbin" =>
       /\ h_fed >= UnitEnd(1) => Len(emitted) >= 1
       /\ Len(emitted) >= 1 =>
            (emitted[1].body_encoding = "binary" /\ emitted[1].body = <<>>)
       /\ (Len(emitted) = 1 /\ parser.state_ = "kHeaders") =>
            h_fed - Len(parser.buffer_) = UnitEnd(1)
       /\ Len(emitted) >= 2 => IsReqA(emitted[2])

(***************************************************************************)
(* Properties: the parsers of an evicted connection                        *)
(***************************************************************************)
\* C31: when the chunk callback is called for a connection whose record was created
\* by this very segment (the connection is new, or it was evicted before), the
\* parser it feeds is a fresh one: headers phase, empty accumulator.
C31_FreshParserAfterEviction ==
  (a_feed.fed /\ a_feed.created) => a_feed.found = ParserInit

(***************************************************************************)
(* Properties: the embedder thread and the state of the capture thread     *)
(***************************************************************************)
\* C32: the embedder thread never replaces or deletes the Reassembler (and with it
\* the parsers) while the capture thread is running: a step that changes
\* g_reassembler is taken with no capture thread running, or joins it first.
C32_EmbedderKeepsOffCaptureState ==
  [][g_reassembler' # g_reassembler =>
       (engine.capture_thread_ # "running" \/ engine'.capture_thread_ # "running")]_vars

\* C33: a start() that reaches the engine while a capture is running leaves the
\* capture as it was: the same Reassembler, the same thread-safe function with the
\* same onMessage and the same queue, the process still running.
C33_FailedStartLeavesCapture ==
  [][(api_log' = Append(api_log, "start") /\ AlreadyRunning(engine)) =>
       (g_reassembler' = g_reassembler /\ g_message_tsf' = g_message_tsf /\ tsf' = tsf)]_vars

(***************************************************************************)
(* Properties: stop() returns                                              *)
(***************************************************************************)
\* C34: stop() terminates.  Once stop() has set the break flag and waits in join,
\* the capture thread ends, the join returns, and stop() returns with the capture
\* handle closed; the capture thread is never left waiting in BlockingCall.
C34_StopTerminates ==
  (stopping.js = "join") ~> (stopping.js = "returned" /\ ~stopping.pcap_handle_)

\* stop() has returned, and when it began the capture thread was in packet_handler
\* with records still to hand to BlockingCall.
C34_Witness ==
  /\ stopping.js = "returned" /\ ~stopping.pcap_handle_
  /\ stopping.busy_at_stop
  /\ stopping.queue > 0

(***************************************************************************)
(* Properties: receiver and direction                                      *)
(***************************************************************************)
InPorts(port) == \E i \in 1 .. Len(capture_ports) : capture_ports[i] = port

SrcOf(seg) == <<seg.src_ip, seg.src_port>>

DstOf(seg) == <<seg.dst_ip, seg.dst_port>>

ReceiverOf(conn) == <<conn.receiver_ip, conn.receiver_port>>

DestOf(conn) == <<conn.dest_ip, conn.dest_port>>

KeyOf(seg) == connection_key(seg.src_ip, seg.src_port, seg.dst_ip, seg.dst_port)

\* C35: the receiver of a connection is set by its first segment: the source
\* endpoint when the source port is a configured port (also when both ports are),
\* else the destination endpoint (its port is configured, or neither is).
C35_ReceiverClassification ==
  (a_feed.created /\ KeyOf(a_feed.seg) \in DOMAIN connections) =>
    LET conn == connections[KeyOf(a_feed.seg)]
    IN IF InPorts(a_feed.seg.src_port)
         THEN ReceiverOf(conn) = SrcOf(a_feed.seg) /\ DestOf(conn) = DstOf(a_feed.seg)
         ELSE ReceiverOf(conn) = DstOf(a_feed.seg) /\ DestOf(conn) = SrcOf(a_feed.seg)

\* The classification of a connection record does not change while the record lives.
ReceiverFixed ==
  [][\A k \in DOMAIN connections \cap DOMAIN connections' :
       connections'[k].admitted = connections[k].admitted =>
         (ReceiverOf(connections'[k]) = ReceiverOf(connections[k])
          /\ DestOf(connections'[k]) = DestOf(connections[k]))]_vars

\* The stream of a connection record that a segment goes to.
StreamOf(conn, seg) ==
  IF is_client_to_server(conn, seg) THEN conn.client_to_server ELSE conn.server_to_client

\* C36: a segment from X to Y and the segment from Y to X have the same canonical
\* connection id, and on the record of that id they go to opposite directions:
\* client_to_server exactly for the one whose source is the record's destination
\* endpoint, the other one coming from the record's receiver.  The chunk of a
\* segment that made a new record is in the stream of that direction, the other
\* stream is untouched.
C36_DirectionsShareRecord ==
  /\ \A seg \in PortSegments :
       /\ KeyOf(Reverse(seg)) = KeyOf(seg)
       /\ KeyOf(seg) \in DOMAIN connections =>
            LET conn == connections[KeyOf(seg)]
            IN /\ is_client_to_server(conn, seg) # is_client_to_server(conn, Reverse(seg))
               /\ is_client_to_server(conn, seg) <=> SrcOf(seg) = DestOf(conn)
               /\ ~is_client_to_server(conn, seg) <=> SrcOf(seg) = ReceiverOf(conn)
  /\ (a_feed.created /\ KeyOf(a_feed.seg) \in DOMAIN connections) =>
       LET conn == connections[KeyOf(a_feed.seg)]
       IN /\ StreamOf(conn, a_feed.seg).out = <<[seq |-> a_feed.seg.seq, data |-> a_feed.seg.payload]>>
          /\ StreamOf(conn, Reverse(a_feed.seg)) = StreamStateInit

\* One record has taken chunks of both directions, on a connection whose two
\* endpoints use the same port.
C36_Witness ==
  \E seg \in PortSegments :
    /\ seg.src_port = seg.dst_port
    /\ KeyOf(seg) \in DOMAIN connections
    /\ connections[KeyOf(seg)].client_to_server.out # <<>>
    /\ connections[KeyOf(seg)].server_to_client.out # <<>>

(***************************************************************************)
(* Properties: segments without payload, the pending set, gaps, the wrap   *)
(***************************************************************************)
\* The positions of s_hist whose segment is a SYN or carries payload.
Significant == { i \in 1 .. Len(s_hist) : s_hist[i].syn \/ s_hist[i].payload # <<>> }

\* The stream was opened by a SYN: the first segment that is a SYN or has payload
\* is a SYN.
OpenedBySyn ==
  Significant # {} /\ s_hist[CHOOSE i \in Significant : \A j \in Significant : i <= j].syn

\* The sequence number of the first payload byte after that SYN.
FirstDataSeq ==
  U32(s_hist[CHOOSE i \in Significant : \A j \in Significant : i <= j].seq + 1)

\* The payload segments pushed so far whose sequence number is above n.
PushedAbove(n) == { i \in 1 .. Len(s_hist) : s_hist[i].payload # <<>> /\ s_hist[i].seq > n }

\* What a SYN leaves behind: the first chunk emitted is the one at seq + 1, and
\* until it arrives the payload segments with higher sequence numbers, and only
\* they, are buffered.
AfterSyn ==
  OpenedBySyn =>
    /\ s_stream.initial_seq_set
    /\ s_stream.out # <<>> => s_stream.out[1].seq = FirstDataSeq
    /\ s_stream.out = <<>> =>
         /\ s_stream.next_seq = FirstDataSeq
         /\ Len(s_stream.segments) = Cardinality(PushedAbove(FirstDataSeq))
         /\ \A i \in PushedAbove(FirstDataSeq) :
              \E m \in 1 .. Len(s_stream.segments) :
                s_stream.segments[m] = [seq |-> s_hist[i].seq, data |-> s_hist[i].payload]

\* A step that pushes a segment without payload emits nothing and leaves the
\* pending set alone; a SYN on a stream without initial sequence number sets
\* next_seq = seq + 1, any other such segment changes nothing.
EmptyPayloadStep ==
  (s_hist' # s_hist /\ s_hist'[Len(s_hist')].payload = <<>>) =>
    /\ s_stream'.out = s_stream.out
    /\ s_stream'.segments = s_stream.segments
    /\ IF s_hist'[Len(s_hist')].syn /\ ~s_stream.initial_seq_set
         THEN /\ s_stream'.initial_seq_set
              /\ s_stream'.next_seq = U32(s_hist'[Len(s_hist')].seq + 1)
         ELSE s_stream' = s_stream

\* C37: segments without payload never emit a chunk and change the stream in one
\* case only, the first SYN, which sets next_seq = seq + 1; after it the payload
\* segment at that sequence number is the first emitted and payload segments with
\* (numerically) higher sequence numbers that arrive before it are buffered.
C37_EmptyPayloadSegments == [][EmptyPayloadStep]_vars /\ []AfterSyn

\* A SYN, then a payload segment above seq + 1, then the one at seq + 1: both chunks
\* are out, in stream order; and a second SYN and a bare ACK came after the first.
C37_Witness ==
  /\ OpenedBySyn
  /\ Len(s_hist) >= 4
  /\ s_hist[1].syn /\ s_hist[2].payload # <<>> /\ s_hist[2].seq > FirstDataSeq
  /\ Len(s_stream.out) = 2
  /\ s_stream.out[1].seq = FirstDataSeq /\ s_stream.out[2].seq = s_hist[2].seq
  /\ \E i \in 2 .. Len(s_hist) : s_hist[i].syn

\* C38: after every push_segment each buffered segment lies strictly above
\* next_seq, and no two buffered segments have the same sequence number.
C38_PendingAhead ==
  /\ \A m \in 1 .. Len(s_stream.segments) : s_stream.segments[m].seq > s_stream.next_seq
  /\ \A m, n \in 1 .. Len(s_stream.segments) :
       s_stream.segments[m].seq = s_stream.segments[n].seq => m = n

\* The number of log_gap calls made for the segments of hist pushed in order on stream.
RECURSIVE GapLog(_, _)
GapLog(stream, hist) ==
  IF hist = <<>> THEN 0
  ELSE log_gap_calls(stream, Head(hist)) + GapLog(process_segment(stream, Head(hist)), Tail(hist))

\* C39: the gap log of one direction of one connection is written at most once.
C39_GapLoggedOnce == GapLog(StreamStateInit, s_hist) <= 1

\* seq is ahead of next_seq in modulo order: less than half the sequence space
\* after it.
AheadModulo(seq, next_seq) == seq # next_seq /\ 2 * U32(seq - next_seq + SeqMod) < SeqMod

\* The bytes of a sequence of chunks.
RECURSIVE ChunkBytes(_)
ChunkBytes(chunks) ==
  IF chunks = <<>> THEN 0 ELSE Len(Head(chunks).data) + ChunkBytes(Tail(chunks))

\* A step that pushes a payload segment at next_seq emits it and advances next_seq
\* by the bytes emitted, modulo the sequence space.
InOrderStep ==
  (s_hist' # s_hist /\ s_hist'[Len(s_hist')].payload # <<>> /\ s_stream.initial_seq_set
   /\ s_hist'[Len(s_hist')].seq = s_stream.next_seq) =>
    /\ Len(s_stream'.out) > Len(s_stream.out)
    /\ s_stream'.out[Len(s_stream.out) + 1] =
         [seq |-> s_stream.next_seq, data |-> s_hist'[Len(s_hist')].payload]
    /\ s_stream'.next_seq =
         U32(s_stream.next_seq + ChunkBytes(Drop(s_stream'.out, Len(s_stream.out))))

\* A step that pushes a payload segment ahead of next_seq in modulo order buffers it.
AheadStep ==
  (s_hist' # s_hist /\ s_hist'[Len(s_hist')].payload # <<>> /\ s_stream.initial_seq_set
   /\ AheadModulo(s_hist'[Len(s_hist')].seq, s_stream.next_seq)) =>
    \E m \in 1 .. Len(s_stream'.segments) :
      s_stream'.segments[m] =
        [seq |-> s_hist'[Len(s_hist')].seq, data |-> s_hist'[Len(s_hist')].payload]

\* In-order delivery goes on across the wrap.
InOrderAcrossWrap == [][InOrderStep]_vars

\* C40: reassembly across the wrap of the sequence space: an in-order segment
\* advances next_seq modulo 2^32 and is emitted, and a segment ahead of next_seq
\* in modulo order, numerically smaller because it lies after the wrap, is
\* buffered and not dropped.
C40_WrapAround == [][InOrderStep /\ AheadStep]_vars

====
